---- MODULE Spec2Model ----
(***************************************************************************)
(* A model of the endly workflow runtime (workflowService): the registry   *)
(* of workflows, the session table, and the execution of one workflow run  *)
(* (runWorkflow -> runTask -> runAction / runAsyncActions).                *)
(*                                                                         *)
(* Strings that the code parses (request.Tasks, task names) are sequences  *)
(* of one-character strings, so that strings.Split / strings.Contains are  *)
(* computed as the code computes them.                                     *)
(***************************************************************************)
EXTENDS Integers, Sequences, FiniteSets, TLC

(***************************************************************************)
(* Bounds of the model.                                                    *)
(***************************************************************************)
\* most tasks in one workflow
MaxTasks == 2
\* most actions declared in one workflow (over all its tasks)
MaxActions == 3
\* most actions of one task declared with Async = true
MaxAsync == 2

(***************************************************************************)
(* Errors.  A Go `error` value is a record; NilErr is the nil error.       *)
(*   msg    what failed                                                    *)
(*   task   the 1-based position of the task it arose in (0: none)         *)
(*   tag    the 1-based position of the action named in the message        *)
(*   cause  the position of the action whose service error is wrapped      *)
(*          (0: the wrapped value was nil)                                 *)
(***************************************************************************)
NilErr == [msg |-> "nil", task |-> 0, tag |-> 0, cause |-> 0]

\* errors.New(serviceResponse.Error) returned by runAction for action a of task t
ServiceErr(t, a) == [msg |-> "service", task |-> t, tag |-> a, cause |-> a]

\* fmt.Errorf("Failed to run action:%v %v", action.Tag, err)
FailedToRun(t, a, e) == [msg |-> "Failed to run action", task |-> t, tag |-> a, cause |-> e.cause]

\* an error of Variables.Apply or of evaluateRunCriteria in task t
StepErr(what, t) == [msg |-> what, task |-> t, tag |-> 0, cause |-> 0]

(***************************************************************************)
(* Strings as sequences of characters.                                     *)
(***************************************************************************)
Contains(s, c) == \E k \in DOMAIN s : s[k] = c

IndexOf(s, c) == CHOOSE k \in DOMAIN s : s[k] = c /\ \A j \in 1..(k-1) : s[j] # c

\* strings.Split(s, sep) for a one-character separator
RECURSIVE Split(_, _)
Split(s, sep) ==
    IF ~Contains(s, sep) THEN <<s>>
    ELSE LET k == IndexOf(s, sep)
         IN  <<SubSeq(s, 1, k-1)>> \o Split(SubSeq(s, k+1, Len(s)), sep)

Digits == <<"0", "1", "2", "3", "4", "5", "6", "7", "8", "9">>

IsDigit(c) == \E d \in DOMAIN Digits : Digits[d] = c

DigitVal(c) == (CHOOSE d \in DOMAIN Digits : Digits[d] = c) - 1

RECURSIVE ParseNat(_, _)
ParseNat(s, acc) ==
    IF s = << >> THEN acc ELSE ParseNat(Tail(s), 10 * acc + DigitVal(Head(s)))

\* toolbox.AsInt on a string: the parsed number, 0 when it is no number
AsInt(s) ==
    IF s # << >> /\ \A k \in DOMAIN s : IsDigit(s[k]) THEN ParseNat(s, 0) ELSE 0

(***************************************************************************)
(* isTaskAllowed                                                           *)
(***************************************************************************)
Range(s) == {s[k] : k \in DOMAIN s}

\* the loop over strings.Split(request.Tasks, ","), from entry k on; the
\* result is the pair the code returns: allowed, and the map of allowed
\* action indices as the set of its keys (a nil map has no keys)
RECURSIVE isTaskAllowedFrom(_, _, _)
isTaskAllowedFrom(name, tasks, k) ==
    IF k > Len(tasks) THEN [allowed |-> FALSE, actions |-> {}]
    ELSE LET task == tasks[k]
             split == ~Contains(task, "=")
             encodedTask == IF split THEN Split(task, "=") ELSE << >>
             taskName == IF split THEN encodedTask[1] ELSE task
         IN  IF taskName = name
             THEN [allowed |-> TRUE,
                   actions |-> IF Len(encodedTask) = 2
                               THEN {AsInt(x) : x \in Range(Split(encodedTask[2], ":"))}
                               ELSE {}]
             ELSE isTaskAllowedFrom(name, tasks, k + 1)

isTaskAllowed(candidate, request) ==
    IF request.Tasks = << >> \/ request.Tasks = <<"*">>
    THEN [allowed |-> TRUE, actions |-> {}]
    ELSE isTaskAllowedFrom(candidate.Name, Split(request.Tasks, ","), 1)

(***************************************************************************)
(* Workflows and run requests of the model.                                *)
(***************************************************************************)
\* the name of the task at position k: "T1", "T2", ...
TaskName(k) == <<"T", Digits[k + 1]>>

\* the Async flags of a task's actions, in declared order
ActionLists ==
    {a \in UNION {[1..n -> BOOLEAN] : n \in 1..MaxActions} :
        Cardinality({i \in DOMAIN a : a[i]}) <= MaxAsync}

RECURSIVE SumLen(_)
SumLen(ts) == IF ts = << >> THEN 0 ELSE Len(Head(ts)) + SumLen(Tail(ts))

MkTask(k, a) == [Name |-> TaskName(k), Actions |-> [i \in DOMAIN a |-> [Async |-> a[i]]]]

\* a workflow is its ordered list of tasks
Workflows ==
    {[k \in DOMAIN ts |-> MkTask(k, ts[k])] :
        ts \in {x \in UNION {[1..n -> ActionLists] : n \in 1..MaxTasks} :
                    SumLen(x) <= MaxActions}}

\* the values of WorkflowRunRequest.Tasks that are tried
TaskSelectors ==
    { << >>,
      <<"*">>,
      <<"T", "1">>,
      <<"T", "2">>,
      <<"T", "1", ",", "T", "2">>,
      <<"T", "1", "=", "0">>,
      <<"T", "1", "=", "0", ":", "2">>,
      <<"T", "1", "=", "1", ",", "T", "2">> }

(***************************************************************************)
(* Events.                                                                 *)
(***************************************************************************)
Ev(type, t, a) == [type |-> type, task |-> t, action |-> a]

\* the events runAction puts in the stream of the context it is given, for
\* an action with Init and Post bindings and no RunCriteria
ActionEvents(t, a, e) ==
    <<Ev("Begin", t, a), Ev("Action.Init", t, a)>>
        \o (IF e = NilErr THEN <<Ev("Action.Post", t, a)>> ELSE << >>)
        \o <<Ev("End", t, a)>>

\* Context.Clone: the event stream of the clone
CloneEvents(parentEvents) == << >>

VARIABLES
    workflow,      \* the workflow being run
    request,       \* the WorkflowRunRequest
    pc,            \* where runWorkflow / runTask / runAsyncActions stands
    ti,            \* position of the current task in workflow.Tasks
    ai,            \* position of the current action in task.Actions
    asyncActions,  \* runTask's asyncActions: positions of the async actions
    events,        \* context.Events of the context the tasks run in
    ran,           \* history: <<task, action>> in the order runAction was entered
    taskState,     \* history: per task "pending", "running" or "returned"
    taskErr,       \* history: the error each runTask call returned
    postCount,     \* history: how often task.Post.Apply was called, per task
    postSeen,      \* history: what held when task.Post.Apply was called
    wpc,           \* per async worker: where the goroutine stands
    wres,          \* history: what runAction returned in each worker
    wevents,       \* actionContext.Events.Events of each worker
    captured,      \* the slice each worker's deferred publishEvents was given
    err,           \* runAsyncActions' err, shared by the workers
    groupErr,      \* runAsyncActions' groupErr, shared by the workers
    failOrder,     \* history: the workers whose runAction failed, in order
    failed,        \* history: the <<task, action>> whose runAction returned an error
    asyncRet,      \* history: what runAsyncActions returned, per task
    wfRet,         \* what runWorkflow returned
    wfPostErr      \* history: what workflow.Post.Apply returned

VARIABLES
    registry,      \* workflowService.registry: workflow name -> workflow
    regBefore,     \* history: the registry before the last request
    regReq,        \* history: the last request to the registry
    regResp        \* the ServiceResponse of the last request

VARIABLES
    sessionTable,  \* s.state: the SessionIDs of the process-wide session table
    sessionOf,     \* context.SessionID of each caller of Run
    spc,           \* where each caller stands in startSession
    started,       \* what startSession returned to each caller
    rlock,         \* the callers holding s.Mutex() for reading
    wlock,         \* the caller holding s.Mutex() for writing (0: nobody)
    crashed        \* the Go runtime ended the process (concurrent map access)

VARIABLES
    async,         \* request.Async of each caller of Run
    gpc,           \* where the goroutine of each caller's async Run stands
    rpc,           \* where the goroutine of removeSession stands, per caller
    response,      \* the ServiceResponse Run returned to each caller
    runEvents      \* the events each caller's Run added to its context

VARIABLES
    fileNames,     \* the names of the files that are written under Source
    disk,          \* the storage: file name -> content and modification time
    writes,        \* how often a log file has been written
    closed,        \* context.IsClosed()
    logState,      \* logValidatorService.state: LogType name -> LogTypeMeta
    nextId,        \* the identity of the next LogRecord allocated
    taken,         \* history: the records assert has taken, in order
    lreq,          \* request.Types of each caller of listen
    lpc,           \* where each caller of listen, then its tailer, stands
    lwork,         \* readLogFiles: the <<candidate, logType>> pairs to read
    lmetas,        \* readLogFiles: the LogType names in its response
    lscan,         \* readLogRecords: data, position i, lineIndex and file
    lresp,         \* what listen returned to each caller
    client,        \* the storage client of each tailer
    areq,          \* the LogValidatorAssertRequest
    apc,           \* where assert stands
    ag,            \* position of the current group in ExpectedLogRecords
    ae,            \* position of the current expected record in the group
    aj,            \* the wait rounds made for the current expected record
    ait,           \* the logRecordIterator of the current group
    validations,   \* response.Validations of assert
    aresp,         \* what assert returned
    resetReqs,     \* the reset requests that are made
    resetReq,      \* request.LogTypes of the reset made
    resetResp,     \* response.LogFiles of the reset made
    rst            \* where the reset made stands in its loops

VARIABLES
    holder,        \* the goroutine that holds each mutex, or NoHolder
    gat,           \* the statement each goroutine stands at
    gin,           \* the goroutine is inside the access or the I/O call
    published      \* the events slice that publishEvents is called with

regVars == <<registry, regBefore, regReq, regResp>>

envVars == <<fileNames, disk, writes, closed>>

storeVars == <<logState, nextId, taken>>

listenVars == <<lreq, lpc, lwork, lmetas, lscan, lresp, client>>

assertVars == <<areq, apc, ag, ae, aj, ait, validations, aresp>>

resetVars == <<resetReqs, resetReq, resetResp, rst>>

logVars == <<envVars, storeVars, listenVars, assertVars, resetVars>>

lockVars == <<holder, gat, gin, published>>

sessionVars == <<sessionTable, sessionOf, spc, started, rlock, wlock, crashed>>

asyncVars == <<async, gpc, rpc, response, runEvents>>

runVars == <<workflow, request, pc, ti, ai, asyncActions, events, ran, taskState,
          taskErr, postCount, postSeen, wpc, wres, wevents, captured, err,
          groupErr, failOrder, failed, asyncRet, wfRet, wfPostErr>>

otherThanRun == <<regVars, sessionVars, asyncVars, logVars, lockVars>>

otherThanRegistry == <<runVars, sessionVars, asyncVars, logVars, lockVars>>

otherThanSession == <<runVars, regVars, asyncVars, logVars, lockVars>>

otherThanAsyncRun == <<runVars, regVars, logVars, lockVars>>

otherThanLog == <<runVars, regVars, sessionVars, asyncVars, lockVars>>

otherThanLocks == <<runVars, regVars, sessionVars, asyncVars, logVars>>

workerVars == <<wpc, wres, wevents, captured, err, groupErr, failOrder>>

NotReturned == [msg |-> "not returned", task |-> 0, tag |-> 0, cause |-> 0]

NoSnapshot ==
    [taken |-> FALSE, wpc |-> << >>, wres |-> << >>, wevents |-> << >>,
     events |-> << >>]

InitRunVars ==
    /\ workflow \in Workflows
    /\ request \in [Tasks : TaskSelectors]
    /\ pc = "start"
    /\ ti = 0
    /\ ai = 0
    /\ asyncActions = << >>
    /\ events = << >>
    /\ ran = << >>
    /\ taskState = [t \in DOMAIN workflow |-> "pending"]
    /\ taskErr = [t \in DOMAIN workflow |-> NotReturned]
    /\ postCount = [t \in DOMAIN workflow |-> 0]
    /\ postSeen = [t \in DOMAIN workflow |-> NoSnapshot]
    /\ wpc = << >>
    /\ wres = << >>
    /\ wevents = << >>
    /\ captured = << >>
    /\ err = NilErr
    /\ groupErr = NilErr
    /\ failOrder = << >>
    /\ failed = {}
    /\ asyncRet = [t \in DOMAIN workflow |-> NotReturned]
    /\ wfRet = NotReturned
    /\ wfPostErr = NotReturned


(***************************************************************************)
(* One workflow run: runWorkflow, runTask, runAsyncActions.                *)
(***************************************************************************)
Task == workflow[ti]

\* runTask's `hasAllowedActions && !allowedServiceActions[i]`, i 0-based
ActionSkipped(allowed, i) == Cardinality(allowed) > 0 /\ i \notin allowed

\* a loop of runTask that goes on after an action failed
ActionFailedIgnored(e) == FALSE

\* `if err != nil` after s.runAction in the loop of runTask
ActionFailed(e) == e # NilErr

\* a loop of runWorkflow that goes on after a task failed
LoopNeverAborts(e) == FALSE

\* `if err != nil` after s.runTask in the loop of runWorkflow
LoopAborts(e) == e # NilErr

\* a Wait that returns as soon as one worker has called group.Done()
GroupWaitReturnsEarly == \E i \in DOMAIN wpc : wpc[i] = "done"

\* group.Wait(): every worker has called group.Done()
GroupWaitReturns == \A i \in DOMAIN wpc : wpc[i] = "done"

\* runTask returns e to the loop of runWorkflow, which goes on to the next
\* task or returns e itself
TaskReturn(e) ==
    /\ taskState' = [taskState EXCEPT ![ti] = "returned"]
    /\ taskErr' = [taskErr EXCEPT ![ti] = e]
    /\ IF LoopAborts(e)
       THEN /\ wfRet' = e
            /\ pc' = "done"
            /\ ti' = ti
       ELSE /\ wfRet' = wfRet
            /\ pc' = "task"
            /\ ti' = ti + 1

\* the outcomes of runWorkflow before the loop: the workflow is loaded and
\* found and workflow.Init applies, or the load or lookup fails, or
\* workflow.Init.Apply fails
BeginOutcomes == {"run", "loadErr", "initErr"}

\* runWorkflow up to the loop over the tasks: load and look up the
\* workflow, clone the context, apply workflow.Init
runWorkflowBegin ==
    /\ pc = "start"
    /\ \E o \in BeginOutcomes :
        CASE o = "run" ->
               /\ pc' = "task"
               /\ ti' = 1
               /\ events' = <<Ev("Workflow.Init", 0, 0), Ev("State.Init", 0, 0)>>
               /\ wfRet' = wfRet
          [] o = "loadErr" ->
               /\ pc' = "done"
               /\ ti' = ti
               /\ events' = events
               /\ wfRet' = StepErr("Failed to load workflow", 0)
          [] o = "initErr" ->
               /\ pc' = "done"
               /\ ti' = ti
               /\ events' = <<Ev("Workflow.Init", 0, 0)>>
               /\ wfRet' = StepErr("Workflow.Init", 0)
    /\ UNCHANGED <<workflow, request, ai, asyncActions, ran, taskState, taskErr,
                   postCount, postSeen, failed, asyncRet>>
    /\ UNCHANGED workerVars
    /\ UNCHANGED wfPostErr
    /\ UNCHANGED otherThanRun

\* the outcomes of task.Init.Apply and evaluateRunCriteria(task.RunCriteria)
GateOutcomes == {"run", "initErr", "criteriaErr", "ineligible"}

\* runTask from its entry to the Begin event of the task
runTaskGate ==
    /\ pc = "task"
    /\ ti <= Len(workflow)
    /\ LET gate == isTaskAllowed(Task, request)
       IN  IF ~gate.allowed
           THEN /\ TaskReturn(NilErr)
                /\ events' = events
                /\ ai' = ai
           ELSE \E o \in GateOutcomes :
                  CASE o = "initErr" ->
                         /\ TaskReturn(StepErr("Task.Init", ti))
                         /\ events' = Append(events, Ev("Task.Init", ti, 0))
                         /\ ai' = ai
                    [] o = "criteriaErr" ->
                         /\ TaskReturn(StepErr("RunCriteria", ti))
                         /\ events' = events \o <<Ev("Task.Init", ti, 0),
                                                  Ev("EvalRunCriteria", ti, 0)>>
                         /\ ai' = ai
                    [] o = "ineligible" ->
                         /\ TaskReturn(NilErr)
                         /\ events' = events \o <<Ev("Task.Init", ti, 0),
                                                  Ev("EvalRunCriteria", ti, 0)>>
                         /\ ai' = ai
                    [] o = "run" ->
                         /\ taskState' = [taskState EXCEPT ![ti] = "running"]
                         /\ events' = events \o <<Ev("Task.Init", ti, 0),
                                                  Ev("EvalRunCriteria", ti, 0),
                                                  Ev("Begin", ti, 0)>>
                         /\ ai' = 1
                         /\ pc' = "actions"
                         /\ UNCHANGED <<ti, taskErr, wfRet>>
    /\ asyncActions' = << >>
    /\ wpc' = << >>
    /\ wres' = << >>
    /\ wevents' = << >>
    /\ captured' = << >>
    /\ err' = NilErr
    /\ groupErr' = NilErr
    /\ failOrder' = << >>
    /\ UNCHANGED <<workflow, request, ran, postCount, postSeen, failed, asyncRet>>
    /\ UNCHANGED wfPostErr
    /\ UNCHANGED otherThanRun

\* one iteration of `for i, action := range task.Actions` in runTask
runTaskAction ==
    /\ pc = "actions"
    /\ ai <= Len(Task.Actions)
    /\ LET gate == isTaskAllowed(Task, request)
       IN  IF Task.Actions[ai].Async
           THEN /\ asyncActions' = Append(asyncActions, ai)
                /\ events' = Append(events, Ev("AsyncServiceAction", ti, ai))
                /\ ai' = ai + 1
                /\ UNCHANGED <<pc, ti, ran, failed, taskState, taskErr, wfRet>>
           ELSE IF ActionSkipped(gate.actions, ai - 1)
           THEN /\ ai' = ai + 1
                /\ UNCHANGED <<pc, ti, asyncActions, events, ran, failed,
                               taskState, taskErr, wfRet>>
           ELSE \E e \in {NilErr, ServiceErr(ti, ai)} :
                  /\ ran' = Append(ran, <<ti, ai>>)
                  /\ failed' = IF e # NilErr THEN failed \cup {<<ti, ai>>} ELSE failed
                  /\ asyncActions' = asyncActions
                  /\ IF ActionFailed(e)
                     THEN /\ TaskReturn(FailedToRun(ti, ai, e))
                          /\ events' = events \o ActionEvents(ti, ai, e)
                                              \o <<Ev("End", ti, 0)>>
                          /\ ai' = ai
                     ELSE /\ events' = events \o ActionEvents(ti, ai, e)
                          /\ ai' = ai + 1
                          /\ UNCHANGED <<pc, ti, taskState, taskErr, wfRet>>
    /\ UNCHANGED <<workflow, request, postCount, postSeen, asyncRet>>
    /\ UNCHANGED workerVars
    /\ UNCHANGED wfPostErr
    /\ UNCHANGED otherThanRun

\* runAsyncActions up to group.Wait(): the workers are started, each on a
\* clone of the context; a worker's deferred publishEvents call is given
\* the clone's event slice as it is when the defer statement runs
runAsyncActionsStart ==
    /\ pc = "actions"
    /\ ai > Len(Task.Actions)
    /\ IF Len(asyncActions) > 0
       THEN /\ pc' = "wait"
            /\ events' = Append(events, Ev("Sleep", ti, 0))
            /\ wpc' = [i \in DOMAIN asyncActions |-> "ready"]
            /\ wres' = [i \in DOMAIN asyncActions |-> NotReturned]
            /\ wevents' = [i \in DOMAIN asyncActions |-> CloneEvents(events')]
            /\ captured' = [i \in DOMAIN asyncActions |-> CloneEvents(events')]
            /\ asyncRet' = asyncRet
       ELSE /\ pc' = "post"
            /\ asyncRet' = [asyncRet EXCEPT ![ti] = err]
            /\ UNCHANGED <<events, wpc, wres, wevents, captured>>
    /\ UNCHANGED <<workflow, request, ti, ai, asyncActions, ran, taskState,
                   taskErr, postCount, postSeen, err, groupErr, failOrder,
                   failed, wfRet>>
    /\ UNCHANGED wfPostErr
    /\ UNCHANGED otherThanRun

\* worker i: `err = s.runAction(actionContext, action)`
workerRunAction(i) ==
    /\ pc = "wait"
    /\ wpc[i] = "ready"
    /\ \E e \in {NilErr, ServiceErr(ti, asyncActions[i])} :
         /\ wres' = [wres EXCEPT ![i] = e]
         /\ wevents' = [wevents EXCEPT ![i] = @ \o ActionEvents(ti, asyncActions[i], e)]
         /\ err' = e
         /\ failOrder' = IF e # NilErr THEN Append(failOrder, i) ELSE failOrder
         /\ failed' = IF e # NilErr
                      THEN failed \cup {<<ti, asyncActions[i]>>}
                      ELSE failed
    /\ ran' = Append(ran, <<ti, asyncActions[i]>>)
    /\ wpc' = [wpc EXCEPT ![i] = "check"]
    /\ UNCHANGED <<workflow, request, pc, ti, ai, asyncActions, events, taskState,
                   taskErr, postCount, postSeen, captured, groupErr, asyncRet, wfRet>>
    /\ UNCHANGED wfPostErr
    /\ UNCHANGED otherThanRun

\* worker i: `if err != nil`
workerCheckErr(i) ==
    /\ pc = "wait"
    /\ wpc[i] = "check"
    /\ wpc' = [wpc EXCEPT ![i] = IF err # NilErr THEN "set" ELSE "publish"]
    /\ UNCHANGED <<workflow, request, pc, ti, ai, asyncActions, events, ran,
                   taskState, taskErr, postCount, postSeen, wres, wevents,
                   captured, err, groupErr, failOrder, failed, asyncRet, wfRet>>
    /\ UNCHANGED wfPostErr
    /\ UNCHANGED otherThanRun

\* worker i: `groupErr = fmt.Errorf(..., action.Tag, err)`
workerSetGroupErr(i) ==
    /\ pc = "wait"
    /\ wpc[i] = "set"
    /\ groupErr' = FailedToRun(ti, asyncActions[i], err)
    /\ wpc' = [wpc EXCEPT ![i] = "publish"]
    /\ UNCHANGED <<workflow, request, pc, ti, ai, asyncActions, events, ran,
                   taskState, taskErr, postCount, postSeen, wres, wevents,
                   captured, err, failOrder, failed, asyncRet, wfRet>>
    /\ UNCHANGED wfPostErr
    /\ UNCHANGED otherThanRun

\* publishEvents(context, events): the events are pushed to the stream of
\* the parent context under the service mutex
publishEvents(evs) == events' = events \o evs

\* worker i: the deferred calls, publishEvents and then group.Done()
workerPublish(i) ==
    /\ pc = "wait"
    /\ wpc[i] = "publish"
    /\ publishEvents(captured[i])
    /\ wpc' = [wpc EXCEPT ![i] = "done"]
    /\ UNCHANGED <<workflow, request, pc, ti, ai, asyncActions, ran, taskState,
                   taskErr, postCount, postSeen, wres, wevents, captured, err,
                   groupErr, failOrder, failed, asyncRet, wfRet>>
    /\ UNCHANGED wfPostErr
    /\ UNCHANGED otherThanRun

\* what runAsyncActions returns after group.Wait()
AsyncResult == IF groupErr # NilErr THEN groupErr ELSE err

\* group.Wait() returns, runAsyncActions returns, and runTask returns the
\* error if there is one
runAsyncActionsJoin ==
    /\ pc = "wait"
    /\ GroupWaitReturns
    /\ asyncRet' = [asyncRet EXCEPT ![ti] = AsyncResult]
    /\ IF AsyncResult # NilErr
       THEN /\ TaskReturn(AsyncResult)
            /\ events' = Append(events, Ev("End", ti, 0))
       ELSE /\ pc' = "post"
            /\ UNCHANGED <<ti, events, taskState, taskErr, wfRet>>
    /\ UNCHANGED <<workflow, request, ai, asyncActions, ran, postCount, postSeen,
                   failed>>
    /\ UNCHANGED workerVars
    /\ UNCHANGED wfPostErr
    /\ UNCHANGED otherThanRun

\* a runTask that leaves task.Post.Apply out
PostNotApplied(count) == count

\* `err = task.Post.Apply(state, state)`: one more application
PostApplied(count) == count + 1

\* runTask from task.Post.Apply to its return
runTaskPost ==
    /\ pc = "post"
    /\ postCount' = [postCount EXCEPT ![ti] = PostApplied(@)]
    /\ postSeen' = [postSeen EXCEPT ![ti] =
                       [taken |-> TRUE, wpc |-> wpc, wres |-> wres, wevents |-> wevents,
                        events |-> events]]
    /\ events' = events \o <<Ev("Task.Post", ti, 0), Ev("End", ti, 0)>>
    /\ \E e \in {NilErr, StepErr("Task.Post", ti)} : TaskReturn(e)
    /\ UNCHANGED <<workflow, request, ai, asyncActions, ran, failed, asyncRet>>
    /\ UNCHANGED workerVars
    /\ UNCHANGED wfPostErr
    /\ UNCHANGED otherThanRun

\* runWorkflow after the loop: workflow.Post.Apply, whose error is not
\* assigned, and `return response, nil`
runWorkflowPost ==
    /\ pc = "task"
    /\ ti > Len(workflow)
    /\ pc' = "done"
    /\ \E e \in {NilErr, StepErr("Workflow.Post", 0)} : wfPostErr' = e
    /\ wfRet' = NilErr
    /\ events' = Append(events, Ev("Workflow.Post", 0, 0))
    /\ UNCHANGED <<workflow, request, ti, ai, asyncActions, ran, taskState,
                   taskErr, postCount, postSeen, failed, asyncRet>>
    /\ UNCHANGED workerVars
    /\ UNCHANGED otherThanRun

NextRun ==
    \/ runWorkflowBegin
    \/ runTaskGate
    \/ runTaskAction
    \/ runAsyncActionsStart
    \/ \E i \in DOMAIN wpc : workerRunAction(i)
    \/ \E i \in DOMAIN wpc : workerCheckErr(i)
    \/ \E i \in DOMAIN wpc : workerSetGroupErr(i)
    \/ \E i \in DOMAIN wpc : workerPublish(i)
    \/ runAsyncActionsJoin
    \/ runTaskPost
    \/ runWorkflowPost


(***************************************************************************)
(* The registry of workflows: Register, loadWorkflow, and the part of      *)
(* runWorkflow that loads the workflow and looks it up.                    *)
(***************************************************************************)
WorkflowNames == {"", "a", "b"}

\* the workflows that requests and sources carry: a name, the names of the
\* tasks, and the rest of the contents
RegWorkflows ==
    [Name : WorkflowNames,
     Tasks : {<<"T1">>, <<"T1", "T2">>, <<"T1", "T1">>},
     Data : {"d1", "d2"}]

NoWorkflow == [Name |-> "", Tasks |-> << >>, Data |-> "none"]

\* Workflow.Validate: the name is not empty and no two tasks share a name
Validate(w) ==
    /\ w.Name # ""
    /\ \A i, j \in DOMAIN w.Tasks : w.Tasks[i] = w.Tasks[j] => i = j

\* s.registry[name] = w
RegistryPut(reg, name, w) ==
    [n \in DOMAIN reg \cup {name} |-> IF n = name THEN w ELSE reg[n]]

\* a Register that stores the workflow without validating it
RegisterUnvalidated(w) ==
    [err |-> "", registry |-> RegistryPut(registry, w.Name, w)]

\* a Register that refuses a name that is registered with other contents
RegisterRefusingDuplicate(w) ==
    IF ~Validate(w)
    THEN [err |-> "invalid workflow", registry |-> registry]
    ELSE IF w.Name \in DOMAIN registry /\ registry[w.Name] # w
    THEN [err |-> "duplicate workflow", registry |-> registry]
    ELSE [err |-> "", registry |-> RegistryPut(registry, w.Name, w)]

\* Register(workflow): the error it returns ("" for nil) and the registry
\* it leaves
Register(w) ==
    IF ~Validate(w)
    THEN [err |-> "invalid workflow", registry |-> registry]
    ELSE [err |-> "", registry |-> RegistryPut(registry, w.Name, w)]

HasWorkflow(name) == name \in DOMAIN registry

\* what s.Dao.Load(context, source) can give: an error, or the workflow
\* that the source holds
DaoLoadResults ==
    {[failed |-> TRUE, workflow |-> NoWorkflow]}
        \cup {[failed |-> FALSE, workflow |-> w] : w \in RegWorkflows}

\* loadWorkflow, given what Dao.Load returned
loadWorkflow(loaded) ==
    IF loaded.failed
    THEN [err |-> "Failed to load workflow", registry |-> registry]
    ELSE LET r == Register(loaded.workflow)
         IN  IF r.err # ""
             THEN [err |-> "Failed to register workflow", registry |-> r.registry]
             ELSE [err |-> "", registry |-> r.registry]

\* Run sets Status from Error
Response(error) == [Status |-> IF error # "" THEN "err" ELSE "ok", Error |-> error]

\* Run with a WorkflowRegisterRequest
RunRegister ==
    \E w \in RegWorkflows :
        LET r == Register(w)
        IN  /\ registry' = r.registry
            /\ regBefore' = registry
            /\ regReq' = [kind |-> "register", name |-> w.Name, workflow |-> w]
            /\ regResp' = Response(r.err)
            /\ UNCHANGED otherThanRegistry

\* Run with a WorkflowLoadRequest
RunLoad ==
    \E loaded \in DaoLoadResults :
        LET r == loadWorkflow(loaded)
        IN  /\ registry' = r.registry
            /\ regBefore' = registry
            /\ regReq' = [kind |-> "load", name |-> loaded.workflow.Name,
                          workflow |-> loaded.workflow]
            /\ regResp' = Response(r.err)
            /\ UNCHANGED otherThanRegistry

\* Run with a WorkflowRunRequest, up to the lookup of the workflow in
\* runWorkflow: loadWorkflowIfNeeded(request.Name, request.WorkflowURL) and
\* s.Workflow(request.Name)
RunWorkflowLookup ==
    \E name \in WorkflowNames, url \in {"", "url"}, repoOk \in BOOLEAN,
       loaded \in DaoLoadResults :
        LET needed == ~HasWorkflow(name)
            repoErr == needed /\ url = "" /\ ~repoOk
            r == IF needed /\ ~repoErr
                 THEN loadWorkflow(loaded)
                 ELSE [err |-> IF repoErr THEN "repo resource" ELSE "",
                       registry |-> registry]
            error == IF r.err # "" THEN r.err
                     ELSE IF name \notin DOMAIN r.registry
                          THEN "Failed to lookup workflow"
                          ELSE ""
        IN  /\ registry' = r.registry
            /\ regBefore' = registry
            /\ regReq' = [kind |-> "run", name |-> name,
                          workflow |-> IF needed /\ ~repoErr
                                       THEN loaded.workflow ELSE NoWorkflow]
            /\ regResp' = Response(error)
            /\ UNCHANGED otherThanRegistry

InitRegistryVars ==
    /\ registry = << >>
    /\ regBefore = << >>
    /\ regReq = [kind |-> "none", name |-> "", workflow |-> NoWorkflow]
    /\ regResp = Response("")

NextRegistry ==
    \/ RunRegister
    \/ RunLoad
    \/ RunWorkflowLookup

(***************************************************************************)
(* The session table: startSession, called by concurrent callers of Run.   *)
(***************************************************************************)
\* the number of concurrent callers of Run
NumCallers == 2

Callers == 1..NumCallers

SessionIDs == {"s1", "s2"}

\* s.Mutex().RLock()
startSessionRLock(p) ==
    /\ ~crashed
    /\ spc[p] = "call"
    /\ wlock = 0
    /\ rlock' = rlock \cup {p}
    /\ spc' = [spc EXCEPT ![p] = "rlocked"]
    /\ UNCHANGED <<sessionTable, sessionOf, started, wlock, crashed>>
    /\ UNCHANGED otherThanSession

\* s.state.Has(context.SessionID) and RUnlock, on either branch
startSessionHas(p) ==
    /\ ~crashed
    /\ spc[p] = "rlocked"
    /\ rlock' = rlock \ {p}
    /\ IF sessionOf[p] \in sessionTable
       THEN /\ spc' = [spc EXCEPT ![p] = "returned"]
            /\ started' = [started EXCEPT ![p] = "false"]
       ELSE /\ spc' = [spc EXCEPT ![p] = "put"]
            /\ started' = started
    /\ UNCHANGED <<sessionTable, sessionOf, wlock, crashed>>
    /\ UNCHANGED otherThanSession

\* s.state.Put(context.SessionID, context), with no lock held
startSessionPut(p) ==
    /\ ~crashed
    /\ spc[p] = "put"
    /\ sessionTable' = sessionTable \cup {sessionOf[p]}
    /\ spc' = [spc EXCEPT ![p] = "lock"]
    /\ UNCHANGED <<sessionOf, started, rlock, wlock, crashed>>
    /\ UNCHANGED otherThanSession

\* the map write of one caller overlaps a map access of another: the Go
\* runtime may end the process ("concurrent map read and map write",
\* "concurrent map writes")
startSessionPutRace(p) ==
    /\ ~crashed
    /\ spc[p] = "put"
    /\ \E q \in Callers \ {p} : spc[q] \in {"rlocked", "put"}
    /\ crashed' = TRUE
    /\ UNCHANGED <<sessionTable, sessionOf, spc, started, rlock, wlock>>
    /\ UNCHANGED otherThanSession

\* s.Mutex().Lock()
startSessionLock(p) ==
    /\ ~crashed
    /\ spc[p] = "lock"
    /\ wlock = 0
    /\ rlock = {}
    /\ wlock' = p
    /\ spc' = [spc EXCEPT ![p] = "locked"]
    /\ UNCHANGED <<sessionTable, sessionOf, started, rlock, crashed>>
    /\ UNCHANGED otherThanSession

\* the deferred Unlock, and `return true`
startSessionReturn(p) ==
    /\ ~crashed
    /\ spc[p] = "locked"
    /\ wlock' = 0
    /\ started' = [started EXCEPT ![p] = "true"]
    /\ spc' = [spc EXCEPT ![p] = "returned"]
    /\ UNCHANGED <<sessionTable, sessionOf, rlock, crashed>>
    /\ UNCHANGED otherThanSession

InitSessionVars ==
    /\ sessionTable = {}
    /\ sessionOf \in [Callers -> SessionIDs]
    /\ spc = [p \in Callers |-> "call"]
    /\ started = [p \in Callers |-> "none"]
    /\ rlock = {}
    /\ wlock = 0
    /\ crashed = FALSE

NextSession ==
    \/ \E p \in Callers : startSessionRLock(p)
    \/ \E p \in Callers : startSessionHas(p)
    \/ \E p \in Callers : startSessionPut(p)
    \/ \E p \in Callers : startSessionPutRace(p)
    \/ \E p \in Callers : startSessionLock(p)
    \/ \E p \in Callers : startSessionReturn(p)

(***************************************************************************)
(* Run: what follows startSession.  An async request starts a goroutine    *)
(* for the workflow and returns at once; removeSession deletes the         *)
(* session in a goroutine of its own.                                      *)
(***************************************************************************)
\* what runWorkflow returns to Run: a response, or an error
WorkflowOutcomes == {"ok", "err"}

\* Run has not returned to the caller
NoResponse == [Status |-> "none", Error |-> "", SessionID |-> "", Data |-> "none"]

\* &WorkflowRunResponse{SessionID: context.SessionID} in a ServiceResponse
\* of Status "ok"
AsyncResponse(id) == [Status |-> "ok", Error |-> "", SessionID |-> id, Data |-> "none"]

\* the response of a synchronous run: runWorkflow's response or its error
SyncResponse(id, outcome) ==
    IF outcome = "err"
    THEN [Status |-> "err", Error |-> "Failed to run workflow", SessionID |-> "", Data |-> "none"]
    ELSE [Status |-> "ok", Error |-> "", SessionID |-> id, Data |-> "data"]

\* the holder of s.Mutex() when removeSession of caller p has it
Remover(p) == NumCallers + p

\* Run with Async: `go func() {...}()`, then the response with the SessionID
RunAsync(p) ==
    /\ ~crashed
    /\ spc[p] = "returned"
    /\ async[p]
    /\ gpc[p] = "none"
    /\ response[p] = NoResponse
    /\ gpc' = [gpc EXCEPT ![p] = "started"]
    /\ runEvents' = [runEvents EXCEPT ![p] = Append(@, "Begin")]
    /\ response' = [response EXCEPT ![p] = AsyncResponse(sessionOf[p])]
    /\ UNCHANGED <<async, rpc>>
    /\ UNCHANGED <<sessionVars, otherThanAsyncRun>>

\* Run without Async: runWorkflow in the caller, the deferred End
RunSync(p) ==
    /\ ~crashed
    /\ spc[p] = "returned"
    /\ ~async[p]
    /\ response[p] = NoResponse
    /\ \E outcome \in WorkflowOutcomes :
          /\ response' = [response EXCEPT ![p] = SyncResponse(sessionOf[p], outcome)]
          /\ runEvents' = [runEvents EXCEPT ![p] =
                              @ \o (IF outcome = "err"
                                    THEN <<"Begin", "End", "Error">>
                                    ELSE <<"Begin", "End">>)]
    /\ UNCHANGED <<async, gpc, rpc>>
    /\ UNCHANGED <<sessionVars, otherThanAsyncRun>>

\* the goroutine of an async Run: runWorkflow, the error event, End
goRunWorkflow(p) ==
    /\ ~crashed
    /\ gpc[p] = "started"
    /\ \E outcome \in WorkflowOutcomes :
          runEvents' = [runEvents EXCEPT ![p] =
                           @ \o (IF outcome = "err"
                                 THEN <<"Error", "End">>
                                 ELSE <<"End">>)]
    /\ gpc' = [gpc EXCEPT ![p] = "deferred"]
    /\ UNCHANGED <<async, rpc, response>>
    /\ UNCHANGED <<sessionVars, otherThanAsyncRun>>

\* removeSession starts its goroutine, which sleeps
removeSession(p) == rpc' = [rpc EXCEPT ![p] = "sleep"]

\* the deferred calls of the goroutine, made if startedSession
goDeferred(p) ==
    IF started[p] = "true" THEN removeSession(p) ELSE rpc' = rpc

\* the goroutine of an async Run returns: its deferred calls run
goReturn(p) ==
    /\ ~crashed
    /\ gpc[p] = "deferred"
    /\ goDeferred(p)
    /\ gpc' = [gpc EXCEPT ![p] = "ended"]
    /\ UNCHANGED <<async, response, runEvents>>
    /\ UNCHANGED <<sessionVars, otherThanAsyncRun>>

\* removeSession's goroutine after time.Sleep: s.Mutex().Lock()
removeSessionLock(p) ==
    /\ ~crashed
    /\ rpc[p] = "sleep"
    /\ wlock = 0
    /\ rlock = {}
    /\ wlock' = Remover(p)
    /\ rpc' = [rpc EXCEPT ![p] = "locked"]
    /\ UNCHANGED <<sessionTable, sessionOf, spc, started, rlock, crashed>>
    /\ UNCHANGED <<async, gpc, response, runEvents>>
    /\ UNCHANGED otherThanAsyncRun

\* s.state.Delete(context.SessionID) and the deferred Unlock
removeSessionDelete(p) ==
    /\ ~crashed
    /\ rpc[p] = "locked"
    /\ sessionTable' = sessionTable \ {sessionOf[p]}
    /\ wlock' = 0
    /\ rpc' = [rpc EXCEPT ![p] = "done"]
    /\ UNCHANGED <<sessionOf, spc, started, rlock, crashed>>
    /\ UNCHANGED <<async, gpc, response, runEvents>>
    /\ UNCHANGED otherThanAsyncRun

\* the Delete overlaps the Put of a caller in startSession, which holds no
\* lock: the Go runtime may end the process ("concurrent map writes")
removeSessionDeleteRace(p) ==
    /\ ~crashed
    /\ rpc[p] = "locked"
    /\ \E q \in Callers : spc[q] = "put"
    /\ crashed' = TRUE
    /\ UNCHANGED <<sessionTable, sessionOf, spc, started, rlock, wlock>>
    /\ UNCHANGED asyncVars
    /\ UNCHANGED otherThanAsyncRun

InitAsyncVars ==
    /\ async \in [Callers -> BOOLEAN]
    /\ gpc = [p \in Callers |-> "none"]
    /\ rpc = [p \in Callers |-> "none"]
    /\ response = [p \in Callers |-> NoResponse]
    /\ runEvents = [p \in Callers |-> << >>]

\* the steps of caller p and of its goroutines
RunStep(p) ==
    \/ startSessionRLock(p)
    \/ startSessionHas(p)
    \/ startSessionPut(p)
    \/ startSessionPutRace(p)
    \/ startSessionLock(p)
    \/ startSessionReturn(p)
    \/ RunAsync(p)
    \/ RunSync(p)
    \/ goRunWorkflow(p)
    \/ goReturn(p)
    \/ removeSessionLock(p)
    \/ removeSessionDelete(p)
    \/ removeSessionDeleteRace(p)

NextAsyncRun ==
    \/ NextSession
    \/ \E p \in Callers : RunAsync(p)
    \/ \E p \in Callers : RunSync(p)
    \/ \E p \in Callers : goRunWorkflow(p)
    \/ \E p \in Callers : goReturn(p)
    \/ \E p \in Callers : removeSessionLock(p)
    \/ \E p \in Callers : removeSessionDelete(p)
    \/ \E p \in Callers : removeSessionDeleteRace(p)

(***************************************************************************)
(* The log validator: log files, their records and processing state.       *)
(* Text (file content, lines, file names, masks) is a sequence of          *)
(* characters.                                                             *)
(***************************************************************************)
\* how often the content of the log files is written
MaxWrites == 2

\* readLogRecords: aChar ends a line
IsLineEnd(c) == c = "\n" \/ c = "\r"

\* the cutset of strings.Trim(line, " \r\t")
TrimCutset == {" ", "\r", "\t"}

RECURSIVE TrimLeft(_)
TrimLeft(line) ==
    IF line # << >> /\ Head(line) \in TrimCutset THEN TrimLeft(Tail(line)) ELSE line

RECURSIVE TrimRight(_)
TrimRight(line) ==
    IF line # << >> /\ line[Len(line)] \in TrimCutset
    THEN TrimRight(SubSeq(line, 1, Len(line) - 1))
    ELSE line

\* strings.Trim(line, " \r\t")
Trim(line) == TrimRight(TrimLeft(line))

\* strings.Contains(line, sub)
ContainsText(line, sub) ==
    \E k \in 0..(Len(line) - Len(sub)) : SubSeq(line, k + 1, k + Len(sub)) = sub

\* strings.HasPrefix(content, prefix)
HasPrefix(content, prefix) ==
    Len(prefix) <= Len(content) /\ SubSeq(content, 1, Len(prefix)) = prefix

\* LogType.UseIndex(): the type has an IndexRegExpr.  An IndexRegExpr is
\* modelled by the set K of characters of the expression `([K])`.
UseIndex(logType) == logType.IndexRegExpr # {}

\* matchLogIndex(expr, input): the first capture group of the leftmost
\* match, "" without a match
matchLogIndex(expr, input) ==
    IF \E k \in DOMAIN input : input[k] \in expr
    THEN <<input[CHOOSE k \in DOMAIN input :
                    /\ input[k] \in expr
                    /\ \A j \in 1..(k - 1) : input[j] \notin expr]>>
    ELSE << >>

\* the mask of a LogType against a file name: "^" + mask + "$" with each
\* "*" replaced by ".+"; "." matches any character
RECURSIVE MaskMatches(_, _)
MaskMatches(mask, name) ==
    IF mask = << >> THEN name = << >>
    ELSE IF Head(mask) = "*"
         THEN \E k \in 1..Len(name) :
                 MaskMatches(Tail(mask), SubSeq(name, k + 1, Len(name)))
         ELSE /\ name # << >>
              /\ (Head(mask) = "." \/ Head(mask) = Head(name))
              /\ MaskMatches(Tail(mask), Tail(name))

\* the characters of file names, in byte order
NameChars == <<".", "1", "2", "e", "o">>

CharOrd(c) == CHOOSE k \in DOMAIN NameChars : NameChars[k] = c

\* a > b for URLs (Go's string comparison)
RECURSIVE TextGreater(_, _)
TextGreater(a, b) ==
    IF a = << >> THEN FALSE
    ELSE IF b = << >> THEN TRUE
    ELSE IF Head(a) # Head(b) THEN CharOrd(Head(a)) > CharOrd(Head(b))
    ELSE TextGreater(Tail(a), Tail(b))

\* &LogProcessingState{}
NewProcessingState == [Line |-> 0, Position |-> 0]

\* LogProcessingState.Update(position, lineNumber)
Update(state, position, lineNumber) ==
    [Line |-> lineNumber, Position |-> state.Position + position]

\* the LogFile readLogFile creates for a file it has not seen
NewLogFile(name, info) ==
    [Name |-> name, Content |-> << >>, Size |-> info.size,
     LastModified |-> info.mod, ProcessingState |-> NewProcessingState,
     Records |-> << >>, IndexedRecords |-> << >>]

\* Reset that keeps the processing state
ResetKeepingState(f, info) ==
    [f EXCEPT !.Size = info.size, !.LastModified = info.mod]

\* LogFile.Reset(object)
Reset(f, info) ==
    [f EXCEPT !.Size = info.size, !.LastModified = info.mod,
              !.ProcessingState = NewProcessingState]

\* the map m with m[key] = value
MapPut(m, key, value) ==
    [k \in DOMAIN m \cup {key} |-> IF k = key THEN value ELSE m[k]]

\* LogFile.PushLogRecord(record) on a file of logType
PushLogRecord(f, logType, record) ==
    LET indexValue == matchLogIndex(logType.IndexRegExpr, record.Line) IN
    [f EXCEPT !.Records = Append(@, record),
              !.IndexedRecords =
                  IF UseIndex(logType) /\ indexValue # << >>
                  THEN MapPut(@, indexValue, record)
                  ELSE @]

\* the records without the first one
DropHead(records) == Tail(records)

\* the records without the last one
DropLast(records) == SubSeq(records, 1, Len(records) - 1)

\* no record: the nil *LogRecord
NilRecord == [Number |-> 0, Line |-> << >>, id |-> 0]

\* LogFile.ShiftLogRecord(): the record returned and the file after it
ShiftLogRecord(f) ==
    IF Len(f.Records) = 0
    THEN [record |-> NilRecord, file |-> f]
    ELSE [record |-> f.Records[1], file |-> [f EXCEPT !.Records = DropHead(@)]]

\* the records that are not the record `result` (compared as pointers)
WithoutRecord(records, result) ==
    SelectSeq(records, LAMBDA candidate : candidate.id # result.id)

\* LogFile.ShiftLogRecordByIndex(value)
ShiftLogRecordByIndex(f, value) ==
    IF Len(f.Records) = 0
    THEN [record |-> NilRecord, file |-> f]
    ELSE IF value \notin DOMAIN f.IndexedRecords
         THEN [record |-> f.Records[1], file |-> [f EXCEPT !.Records = DropHead(@)]]
         ELSE [record |-> f.IndexedRecords[value],
               file |-> [f EXCEPT !.Records = WithoutRecord(@, f.IndexedRecords[value])]]

\* LogFile.HasPendingLogs()
HasPendingLogs(f) == Len(f.Records) > 0

(***************************************************************************)
(* The log validator: storage, listen, readLogFiles and the tailer.        *)
(***************************************************************************)
\* the callers of listen; each successful listen starts one tailer
Listeners == {1, 2}

\* the contents a log file is given: empty, one line, a partial second
\* line, two lines, other lines of the same and of smaller length, lines
\* to trim, an empty line, a line ended by "\r\n"
Contents ==
    { << >>,
      <<"a", "\n">>,
      <<"a", "\n", "b">>,
      <<"a", "\n", "b", "\n">>,
      <<"b", "\n">>,
      <<"b", "\n", "a", "\n">>,
      <<" ", "a", "\n", "\n">>,
      <<"b", "\r", "\n">> }

\* storage.Object.FileInfo() of the file `name`
FileInfo(name) == [size |-> Len(disk[name].content), mod |-> disk[name].mod]

\* NewLogTypeMeta(source, logType)
NewLogTypeMeta(logType) == [LogType |-> logType, LogFiles |-> << >>]

\* s.state.Has(logTypeMetaKey(name))
HasMeta(name) == name \in DOMAIN logState

\* the file names of the set S in ascending order
RECURSIVE ByName(_)
ByName(S) ==
    IF S = {} THEN << >>
    ELSE LET first == CHOOSE x \in S : \A y \in S \ {x} : TextGreater(y, x)
         IN  <<first>> \o ByName(S \ {first})

\* service.List(source.URL): the files under Source, by name
Candidates == ByName(DOMAIN disk)

\* readLogFiles: for each candidate, for each logType whose mask matches
RECURSIVE MatchingPairs(_, _)
MatchingPairs(candidates, logTypes) ==
    IF candidates = << >> THEN << >>
    ELSE LET matching == SelectSeq(logTypes,
                             LAMBDA logType : MaskMatches(logType.Mask, Head(candidates)))
         IN  [k \in DOMAIN matching |->
                  [name |-> Head(candidates), type |-> matching[k]]]
             \o MatchingPairs(Tail(candidates), logTypes)

\* where the caller of readLogFiles stands after a <<candidate, logType>>:
\* at the next one, or after the last one back in listen or, in the tailer,
\* after time.Sleep(frequency) at the head of the loop
AfterFile(l) ==
    IF Tail(lwork[l]) # << >> THEN "file"
    ELSE IF client[l] = "open" THEN "poll" ELSE "install"

\* no readLogRecords under way
NoScan ==
    [type |-> "", name |-> << >>, data |-> << >>, startPosition |-> 0,
     startLine |-> 0, i |-> 0, lineIndex |-> 0]

\* the LogFile `name` of the LogType `key` becomes f, where the
\* LogTypeMeta still has that file
PutLogFile(key, name, f) ==
    IF key \in DOMAIN logState /\ name \in DOMAIN logState[key].LogFiles
    THEN [logState EXCEPT ![key].LogFiles[name] = f]
    ELSE logState

\* the environment writes a log file: an append, a rewrite or a rotation,
\* at a later modification time
writeLog(contents) ==
    /\ writes < MaxWrites
    /\ \E name \in fileNames, content \in contents :
          /\ name \in DOMAIN disk => content # disk[name].content
          /\ disk' = MapPut(disk, name,
                         [content |-> content,
                          mod |-> IF name \in DOMAIN disk THEN disk[name].mod + 1 ELSE 1])
    /\ writes' = writes + 1
    /\ UNCHANGED <<fileNames, closed>>
    /\ UNCHANGED <<storeVars, listenVars, assertVars, resetVars>>
    /\ UNCHANGED otherThanLog

\* the context is closed
closeContext ==
    /\ ~closed
    /\ closed' = TRUE
    /\ UNCHANGED <<fileNames, disk, writes>>
    /\ UNCHANGED <<storeVars, listenVars, assertVars, resetVars>>
    /\ UNCHANGED otherThanLog

\* an error ends listen (no tailer yet) or the tailer, which closes its
\* storage client
ReadFailed(l) ==
    /\ lpc' = [lpc EXCEPT ![l] = IF client[l] = "open" THEN "exited" ELSE "failed"]
    /\ client' = [client EXCEPT ![l] = IF @ = "open" THEN "closed" ELSE @]
    /\ lresp' = [lresp EXCEPT ![l] = IF client[l] = "open" THEN @ ELSE "err"]
    /\ lwork' = [lwork EXCEPT ![l] = << >>]
    /\ lscan' = [lscan EXCEPT ![l] = NoScan]

\* listen that does not look for registered LogTypes
listenUnchecked(l) ==
    /\ lpc[l] = "call"
    /\ lpc' = [lpc EXCEPT ![l] = "list"]
    /\ UNCHANGED <<lreq, lwork, lmetas, lscan, lresp, client>>
    /\ UNCHANGED <<envVars, storeVars, assertVars, resetVars>>
    /\ UNCHANGED otherThanLog

\* listen, up to the initial readLogFiles: a LogType already registered
\* fails the request
listen(l) ==
    /\ lpc[l] = "call"
    /\ IF \E k \in DOMAIN lreq[l] : HasMeta(lreq[l][k].Name)
       THEN /\ lpc' = [lpc EXCEPT ![l] = "failed"]
            /\ lresp' = [lresp EXCEPT ![l] = "registered"]
       ELSE /\ lpc' = [lpc EXCEPT ![l] = "list"]
            /\ lresp' = lresp
    /\ UNCHANGED <<lreq, lwork, lmetas, lscan, client>>
    /\ UNCHANGED <<envVars, storeVars, assertVars, resetVars>>
    /\ UNCHANGED otherThanLog

\* the tailer never leaves its loop
LoopNeverEnds == FALSE

\* the tailer leaves its loop when the context is closed
LoopEnds == closed

\* readLogFiles, in listen or at the head of the tailer's loop:
\* service.List, and the candidates the masks match
readLogFiles(l) ==
    /\ \/ lpc[l] = "list"
       \/ lpc[l] = "poll" /\ ~LoopEnds
    /\ \E outcome \in {"ok", "err"} :
          IF outcome = "err"
          THEN /\ ReadFailed(l)
               /\ lmetas' = lmetas
          ELSE /\ lwork' = [lwork EXCEPT ![l] = MatchingPairs(Candidates, lreq[l])]
               /\ lmetas' = [lmetas EXCEPT ![l] = {}]
               /\ lpc' = [lpc EXCEPT ![l] =
                             IF MatchingPairs(Candidates, lreq[l]) # << >> THEN "file"
                             ELSE IF client[l] = "open" THEN "poll" ELSE "install"]
               /\ UNCHANGED <<lscan, lresp, client>>
    /\ UNCHANGED lreq
    /\ UNCHANGED <<envVars, storeVars, assertVars, resetVars>>
    /\ UNCHANGED otherThanLog

\* readLogRecords: the positions of the ends of line from offset i on
LineEnds(data, i) == {k \in (i + 1)..Len(data) : IsLineEnd(data[k])}

\* readLogFile for the next <<candidate, logType>>: the LogTypeMeta and the
\* LogFile are fetched or created, an unchanged file is skipped, the content
\* is downloaded, a shrunk or rewritten file is Reset, Content and Size are
\* set; readLogRecords follows for a content that is not empty
readLogFile(l) ==
    /\ lpc[l] = "file"
    /\ lwork[l] # << >>
    /\ LET name == Head(lwork[l]).name
           logType == Head(lwork[l]).type
           key == logType.Name
           fileInfo == FileInfo(name)
           result == IF HasMeta(key) THEN logState[key] ELSE NewLogTypeMeta(logType)
           isNewLogFile == name \notin DOMAIN result.LogFiles
           logFile == IF isNewLogFile THEN NewLogFile(name, fileInfo)
                      ELSE result.LogFiles[name]
           withFile == MapPut(logState, key,
                          [result EXCEPT !.LogFiles = MapPut(@, name, logFile)])
           content == disk[name].content
           fileOverridden == Len(logFile.Content) > Len(content)
           afterShrink == IF fileOverridden
                          THEN [Reset(logFile, fileInfo) EXCEPT !.Content = content]
                          ELSE logFile
           afterRewrite == IF /\ ~fileOverridden
                              /\ afterShrink.Size < fileInfo.size
                              /\ ~HasPrefix(content, afterShrink.Content)
                           THEN Reset(afterShrink, fileInfo)
                           ELSE afterShrink
           updated == [afterRewrite EXCEPT !.Content = content, !.Size = Len(content)]
       IN  IF /\ ~isNewLogFile
              /\ logFile.Size = fileInfo.size
              /\ logFile.LastModified = fileInfo.mod
           THEN /\ logState' = withFile
                /\ lmetas' = [lmetas EXCEPT ![l] = @ \cup {key}]
                /\ lwork' = [lwork EXCEPT ![l] = Tail(@)]
                /\ lpc' = [lpc EXCEPT ![l] = AfterFile(l)]
                /\ UNCHANGED <<lscan, lresp, client>>
           ELSE \E outcome \in {"ok", "err"} :
                   IF outcome = "err"
                   THEN /\ logState' = withFile
                        /\ ReadFailed(l)
                        /\ lmetas' = lmetas
                   ELSE /\ logState' = MapPut(logState, key,
                                          [result EXCEPT !.LogFiles = MapPut(@, name, updated)])
                        /\ IF /\ Len(content) > 0
                              /\ updated.ProcessingState.Position <= Len(content)
                              /\ LineEnds(content, updated.ProcessingState.Position) # {}
                           THEN /\ lscan' = [lscan EXCEPT ![l] =
                                                [type |-> key, name |-> name, data |-> content,
                                                 startPosition |-> updated.ProcessingState.Position,
                                                 startLine |-> updated.ProcessingState.Line,
                                                 i |-> updated.ProcessingState.Position,
                                                 lineIndex |-> updated.ProcessingState.Line]]
                                /\ lpc' = [lpc EXCEPT ![l] = "scan"]
                                /\ UNCHANGED <<lwork, lmetas>>
                           ELSE /\ lmetas' = [lmetas EXCEPT ![l] = @ \cup {key}]
                                /\ lwork' = [lwork EXCEPT ![l] = Tail(@)]
                                /\ lpc' = [lpc EXCEPT ![l] = AfterFile(l)]
                                /\ lscan' = lscan
                        /\ UNCHANGED <<lresp, client>>
    /\ UNCHANGED <<lreq, nextId, taken>>
    /\ UNCHANGED <<envVars, assertVars, resetVars>>
    /\ UNCHANGED otherThanLog

\* the line is dropped by the Exclusion or the Inclusion of the LogType
Filtered(logType, line) ==
    \/ logType.Exclusion # << >> /\ ContainsText(line, logType.Exclusion)
    \/ logType.Inclusion # << >> /\ ~ContainsText(line, logType.Inclusion)

\* readLogRecords: the loop up to the next end of line, where the line is
\* trimmed, counted, filtered and pushed and the ProcessingState updated;
\* after the last end of line the loop ends and readLogFile returns
readLogRecords(l) ==
    /\ lpc[l] = "scan"
    /\ LET scan == lscan[l]
           data == scan.data
           ends == LineEnds(data, scan.i)
           end == CHOOSE k \in ends : \A j \in ends : k <= j
           line == Trim(SubSeq(data, scan.i + 1, end - 1))
           dataProcessed == end - scan.i
           lineIndex == scan.lineIndex + 1
           logType == logState[scan.type].LogType
           f == logState[scan.type].LogFiles[scan.name]
           pushes == ~Filtered(logType, line) /\ Len(line) > 0
           pushed == IF pushes
                     THEN PushLogRecord(f, logType,
                              [Number |-> lineIndex, Line |-> line, id |-> nextId])
                     ELSE f
       IN  /\ logState' = PutLogFile(scan.type, scan.name,
                             [pushed EXCEPT !.ProcessingState =
                                   Update(@, dataProcessed, lineIndex)])
           /\ nextId' = IF pushes THEN nextId + 1 ELSE nextId
           /\ IF LineEnds(data, end) # {}
              THEN /\ lscan' = [lscan EXCEPT ![l].i = end, ![l].lineIndex = lineIndex]
                   /\ UNCHANGED <<lpc, lwork, lmetas>>
              ELSE /\ lpc' = [lpc EXCEPT ![l] = AfterFile(l)]
                   /\ lwork' = [lwork EXCEPT ![l] = Tail(@)]
                   /\ lmetas' = [lmetas EXCEPT ![l] = @ \cup {scan.type}]
                   /\ lscan' = [lscan EXCEPT ![l] = NoScan]
    /\ UNCHANGED <<lreq, lresp, client, taken>>
    /\ UNCHANGED <<envVars, assertVars, resetVars>>
    /\ UNCHANGED otherThanLog

\* listen after the initial readLogFiles: a LogTypeMeta is put for every
\* requested type, a new one for a type no file matched; listenForChanges
\* starts the tailer with a storage client of its own; listen returns
listenForChanges(l) ==
    /\ lpc[l] = "install"
    /\ logState' =
          [name \in DOMAIN logState \cup {lreq[l][k].Name : k \in DOMAIN lreq[l]} |->
              IF name \in DOMAIN logState /\
                 (name \in lmetas[l] \/ \A k \in DOMAIN lreq[l] : lreq[l][k].Name # name)
              THEN logState[name]
              ELSE NewLogTypeMeta(
                       lreq[l][CHOOSE k \in DOMAIN lreq[l] :
                                  /\ lreq[l][k].Name = name
                                  /\ \A j \in DOMAIN lreq[l] :
                                        lreq[l][j].Name = name => j <= k])]
    /\ client' = [client EXCEPT ![l] = "open"]
    /\ lresp' = [lresp EXCEPT ![l] = "ok"]
    /\ lpc' = [lpc EXCEPT ![l] = "poll"]
    /\ UNCHANGED <<lreq, lwork, lmetas, lscan, nextId, taken>>
    /\ UNCHANGED <<envVars, assertVars, resetVars>>
    /\ UNCHANGED otherThanLog

\* the tailer's `for !context.IsClosed()`: the deferred service.Close()
\* when the loop ends
tailerExit(l) ==
    /\ lpc[l] = "poll"
    /\ LoopEnds
    /\ lpc' = [lpc EXCEPT ![l] = "exited"]
    /\ client' = [client EXCEPT ![l] = "closed"]
    /\ UNCHANGED <<lreq, lwork, lmetas, lscan, lresp>>
    /\ UNCHANGED <<envVars, storeVars, assertVars, resetVars>>
    /\ UNCHANGED otherThanLog

(***************************************************************************)
(* The log validator: assert with its logRecordIterator, and reset.        *)
(***************************************************************************)
\* request.LogWaitRetryCount where the request leaves it 0
DefaultLogWaitRetryCount == 3

\* the rounds assert waits for one expected record
LogWaitRetryCount ==
    IF areq.LogWaitRetryCount = 0 THEN DefaultLogWaitRetryCount
    ELSE areq.LogWaitRetryCount

\* the sort of logFileProvider: a comes before b
FileBefore(files, a, b) ==
    IF files[a].LastModified = files[b].LastModified
    THEN TextGreater(a, b)
    ELSE files[a].LastModified > files[b].LastModified

\* logFileProvider(): the LogFiles, last modified first, then by URL
RECURSIVE Provided(_, _)
Provided(files, names) ==
    IF names = {} THEN << >>
    ELSE LET first == CHOOSE a \in names : \A b \in names \ {a} : FileBefore(files, a, b)
         IN  <<first>> \o Provided(files, names \ {first})

logFileProvider(key) ==
    IF HasMeta(key)
    THEN Provided(logState[key].LogFiles, DOMAIN logState[key].LogFiles)
    ELSE << >>

\* LogTypeMeta.LogRecordIterator()
LogRecordIterator(key) == [logFiles |-> logFileProvider(key), logFileIndex |-> 0]

\* HasPendingLogs of the file `name` of the LogType `key`
Pending(key, name) ==
    /\ HasMeta(key)
    /\ name \in DOMAIN logState[key].LogFiles
    /\ HasPendingLogs(logState[key].LogFiles[name])

\* logRecordIterator.HasNext(): the answer and the iterator after the call
RECURSIVE HasNext(_, _)
HasNext(it, key) ==
    IF it.logFileIndex >= Len(it.logFiles)
    THEN LET logFiles == logFileProvider(key)
             pending == {j \in DOMAIN logFiles : Pending(key, logFiles[j])}
         IN  IF pending # {}
             THEN [has |-> TRUE,
                   it |-> [logFiles |-> logFiles,
                           logFileIndex |-> (CHOOSE j \in pending :
                                                \A k \in pending : j <= k) - 1]]
             ELSE [has |-> FALSE,
                   it |-> [logFiles |-> logFiles, logFileIndex |-> it.logFileIndex]]
    ELSE IF ~Pending(key, it.logFiles[it.logFileIndex + 1])
         THEN HasNext([it EXCEPT !.logFileIndex = @ + 1], key)
         ELSE [has |-> TRUE, it |-> it]

\* the expected groups and the current one
Groups == areq.ExpectedLogRecords

Group == Groups[ag]

\* a Validation as assert appends it for an expected record
NewValidation(type, expected) ==
    [Type |-> type, Expected |-> expected, Sleeps |-> 0, Failure |-> "",
     Actual |-> NilRecord, File |-> << >>]

\* the current Validation becomes v
SetValidation(v) == [validations EXCEPT ![Len(validations)] = v]

\* the Validator's comparison of the expected record with the actual line
Compare(expected, actual) == IF expected = actual THEN "" ELSE "mismatch"

\* assert is called: nothing to do without expected records
assertBegin ==
    /\ apc = "call"
    /\ IF Len(Groups) = 0
       THEN /\ aresp' = "ok"
            /\ apc' = "done"
            /\ ag' = ag
       ELSE /\ ag' = 1
            /\ apc' = "group"
            /\ aresp' = aresp
    /\ UNCHANGED <<areq, ae, aj, ait, validations>>
    /\ UNCHANGED <<envVars, storeVars, listenVars, resetVars>>
    /\ UNCHANGED otherThanLog

\* the next group: getLogTypeMeta and a new iterator
assertGroup ==
    /\ apc = "group"
    /\ IF ~HasMeta(Group.Type)
       THEN /\ aresp' = "err"
            /\ apc' = "done"
            /\ UNCHANGED <<ae, ait>>
       ELSE /\ ait' = LogRecordIterator(Group.Type)
            /\ ae' = 1
            /\ apc' = "expect"
            /\ aresp' = aresp
    /\ UNCHANGED <<areq, ag, aj, validations>>
    /\ UNCHANGED <<envVars, storeVars, listenVars, resetVars>>
    /\ UNCHANGED otherThanLog

\* the next expected record of the group gets its Validation; after the
\* last one the next group follows, after the last group assert returns
assertExpected ==
    /\ apc = "expect"
    /\ IF ae <= Len(Group.Records)
       THEN /\ validations' = Append(validations,
                                  NewValidation(Group.Type, Group.Records[ae]))
            /\ aj' = 0
            /\ apc' = "wait"
            /\ UNCHANGED <<ag, aresp>>
       ELSE IF ag < Len(Groups)
            THEN /\ ag' = ag + 1
                 /\ apc' = "group"
                 /\ UNCHANGED <<aj, validations, aresp>>
            ELSE /\ aresp' = "ok"
                 /\ apc' = "done"
                 /\ UNCHANGED <<ag, aj, validations>>
    /\ UNCHANGED <<areq, ae, ait>>
    /\ UNCHANGED <<envVars, storeVars, listenVars, resetVars>>
    /\ UNCHANGED otherThanLog

\* the wait loop is never left
LastRoundNever(j) == FALSE

\* the wait loop is left after this round
LastRound(j) == j + 1 >= LogWaitRetryCount

\* one round of the wait loop: HasNext ends it, else a Sleep event is added
\* and assert sleeps
assertWait ==
    /\ apc = "wait"
    /\ LET next == HasNext(ait, Group.Type)
       IN  /\ ait' = next.it
           /\ IF next.has
              THEN /\ apc' = "check"
                   /\ UNCHANGED <<aj, validations>>
              ELSE /\ validations' = SetValidation(
                                         [validations[Len(validations)] EXCEPT
                                             !.Sleeps = @ + 1])
                   /\ aj' = aj + 1
                   /\ apc' = IF LastRound(aj) THEN "check" ELSE "wait"
    /\ UNCHANGED <<areq, ag, ae, aresp>>
    /\ UNCHANGED <<envVars, storeVars, listenVars, resetVars>>
    /\ UNCHANGED otherThanLog

\* after the wait loop: without a queued record the failure "missing log
\* record" is added and assert returns its response
assertCheck ==
    /\ apc = "check"
    /\ LET next == HasNext(ait, Group.Type)
       IN  /\ ait' = next.it
           /\ IF next.has
              THEN /\ apc' = "next"
                   /\ UNCHANGED <<validations, aresp>>
              ELSE /\ validations' = SetValidation(
                                         [validations[Len(validations)] EXCEPT
                                             !.Failure = "missing log record"])
                   /\ aresp' = "ok"
                   /\ apc' = "done"
    /\ UNCHANGED <<areq, ag, ae, aj>>
    /\ UNCHANGED <<envVars, storeVars, listenVars, resetVars>>
    /\ UNCHANGED otherThanLog

\* the index value of the expected record where the LogType uses an index
ExpectedIndexValue(logType, expected) ==
    IF UseIndex(logType) THEN matchLogIndex(logType.IndexRegExpr, expected)
    ELSE << >>

\* Next that takes the last record
NextLast(f, indexValue) ==
    IF Len(f.Records) = 0 THEN [record |-> NilRecord, file |-> f]
    ELSE [record |-> f.Records[Len(f.Records)],
          file |-> [f EXCEPT !.Records = DropLast(@)]]

\* logRecordIterator.Next(itemPointer) on the LogFile f: by index for an
\* *IndexedLogRecord, else the first record
Next_(f, indexValue) ==
    IF indexValue # << >> THEN ShiftLogRecordByIndex(f, indexValue)
    ELSE ShiftLogRecord(f)

\* the record is taken from the file the iterator stands at, by index or
\* first in first out, and compared with the expected record; reading the
\* Line of a nil record panics
assertNext ==
    /\ apc = "next"
    /\ LET key == Group.Type
           name == ait.logFiles[ait.logFileIndex + 1]
           f == logState[key].LogFiles[name]
           expected == Group.Records[ae]
           shift == Next_(f, ExpectedIndexValue(logState[key].LogType, expected))
       IN  /\ logState' = PutLogFile(key, name, shift.file)
           /\ IF shift.record = NilRecord
              THEN /\ aresp' = "panic"
                   /\ apc' = "done"
                   /\ UNCHANGED <<ae, validations, taken>>
              ELSE /\ validations' = SetValidation(
                                         [validations[Len(validations)] EXCEPT
                                             !.Actual = shift.record,
                                             !.File = name,
                                             !.Failure = Compare(expected, shift.record.Line)])
                   /\ taken' = Append(taken, [type |-> key, name |-> name,
                                               record |-> shift.record])
                   /\ ae' = ae + 1
                   /\ apc' = "expect"
                   /\ aresp' = aresp
    /\ UNCHANGED <<areq, ag, aj, ait, nextId>>
    /\ UNCHANGED <<envVars, listenVars, resetVars>>
    /\ UNCHANGED otherThanLog

\* the names of the LogTypes that are listened for, and one that is not
LogTypeNames == {"t1", "t2", "tx"}

\* request.LogTypes of reset
ResetRequests ==
    {<<n>> : n \in LogTypeNames} \cup
    {<<n, m>> : <<n, m>> \in {p \in LogTypeNames \X LogTypeNames : p[1] # p[2]}}

\* reset is not called, or has returned
NoReset == [pc |-> "idle", n |-> 0, files |-> << >>]

\* the orders in which `range` may visit the keys of a map
Orders(names) ==
    {order \in [1..Cardinality(names) -> names] :
        \A i, j \in DOMAIN order : order[i] = order[j] => i = j}

\* reset of one LogFile: the new ProcessingState
ResetState(f) ==
    [f EXCEPT !.ProcessingState = [Position |-> f.Size, Line |-> Len(f.Records)]]

\* reset that keeps the records
ResetRecordsKeeping(f) == f

\* reset of one LogFile: the new, empty Records
ResetRecords(f) == [f EXCEPT !.Records = << >>]

\* reset is called with request.LogTypes = names
reset(names) ==
    /\ names \in resetReqs
    /\ rst.pc = "idle"
    /\ resetReq = << >>
    /\ resetReq' = names
    /\ resetResp' = << >>
    /\ rst' = [pc |-> "type", n |-> 1, files |-> << >>]
    /\ UNCHANGED resetReqs
    /\ UNCHANGED <<envVars, storeVars, listenVars, assertVars>>
    /\ UNCHANGED otherThanLog

\* reset, the loop over request.LogTypes: a name that is not registered is
\* skipped, the LogFiles of a registered one are ranged over; after the last
\* name reset returns its response
resetType ==
    /\ rst.pc = "type"
    /\ IF rst.n > Len(resetReq)
       THEN rst' = [pc |-> "done", n |-> rst.n, files |-> << >>]
       ELSE IF ~HasMeta(resetReq[rst.n]) \/ DOMAIN logState[resetReq[rst.n]].LogFiles = {}
            THEN rst' = [rst EXCEPT !.n = @ + 1]
            ELSE \E order \in Orders(DOMAIN logState[resetReq[rst.n]].LogFiles) :
                    rst' = [pc |-> "file", n |-> rst.n, files |-> order]
    /\ UNCHANGED <<resetReqs, resetReq, resetResp>>
    /\ UNCHANGED <<envVars, storeVars, listenVars, assertVars>>
    /\ UNCHANGED otherThanLog

\* reset, the next LogFile: ProcessingState is replaced, without the lock
\* of the LogFile
resetState ==
    /\ rst.pc = "file"
    /\ logState' = PutLogFile(resetReq[rst.n], Head(rst.files),
                       ResetState(logState[resetReq[rst.n]].LogFiles[Head(rst.files)]))
    /\ rst' = [rst EXCEPT !.pc = "records"]
    /\ UNCHANGED <<nextId, taken, resetReqs, resetReq, resetResp>>
    /\ UNCHANGED <<envVars, listenVars, assertVars>>
    /\ UNCHANGED otherThanLog

\* reset, the same LogFile: Records is replaced by an empty slice and the
\* name of the file is added to the response
resetRecords ==
    /\ rst.pc = "records"
    /\ logState' = PutLogFile(resetReq[rst.n], Head(rst.files),
                       ResetRecords(logState[resetReq[rst.n]].LogFiles[Head(rst.files)]))
    /\ resetResp' = Append(resetResp, Head(rst.files))
    /\ rst' = IF Tail(rst.files) # << >>
              THEN [rst EXCEPT !.pc = "file", !.files = Tail(@)]
              ELSE [pc |-> "type", n |-> rst.n + 1, files |-> << >>]
    /\ UNCHANGED <<nextId, taken, resetReqs, resetReq>>
    /\ UNCHANGED <<envVars, listenVars, assertVars>>
    /\ UNCHANGED otherThanLog

(***************************************************************************)
(* The log validator: the requests and files of a run.                     *)
(***************************************************************************)
FileE1 == <<"e", "1">>

FileE2 == <<"e", "2">>

FileO == <<"o">>

\* a LogType of the listen request
LogType(name, mask, exclusion, inclusion, indexRegExpr) ==
    [Name |-> name, Mask |-> mask, Exclusion |-> exclusion,
     Inclusion |-> inclusion, IndexRegExpr |-> indexRegExpr]

\* the LogType "t1" of the files e*: plain, with an Exclusion, with an
\* IndexRegExpr
T1 == LogType("t1", <<"e", "*">>, << >>, << >>, {})

T1Excluding == LogType("t1", <<"e", "*">>, <<"b">>, << >>, {})

T1Indexed == LogType("t1", <<"e", "*">>, << >>, << >>, {"a", "b"})

T1Types == {T1, T1Excluding, T1Indexed}

\* the LogType "t2" of the file o
T2 == LogType("t2", <<"o">>, << >>, << >>, {})

\* one group of expected records
Expect(type, records) == [Type |-> type, Records |-> records]

AssertRequest(groups, retry) ==
    [ExpectedLogRecords |-> groups, LogWaitRetryCount |-> retry]

\* the log variables at the start, for the files, the listen requests of
\* the two callers and the assert requests given
InitLogVars(files, types1, types2, asserts, resets) ==
    /\ fileNames = files
    /\ disk = << >>
    /\ writes = 0
    /\ closed = FALSE
    /\ logState = << >>
    /\ nextId = 1
    /\ taken = << >>
    /\ lreq \in {[l \in Listeners |-> IF l = 1 THEN r1 ELSE r2] :
                    r1 \in types1, r2 \in types2}
    /\ lpc = [l \in Listeners |-> IF lreq[l] = << >> THEN "idle" ELSE "call"]
    /\ lwork = [l \in Listeners |-> << >>]
    /\ lmetas = [l \in Listeners |-> {}]
    /\ lscan = [l \in Listeners |-> NoScan]
    /\ lresp = [l \in Listeners |-> "none"]
    /\ client = [l \in Listeners |-> "none"]
    /\ areq \in asserts
    /\ apc = "call"
    /\ ag = 0
    /\ ae = 0
    /\ aj = 0
    /\ ait = [logFiles |-> << >>, logFileIndex |-> 0]
    /\ validations = << >>
    /\ aresp = "none"
    /\ resetReqs = resets
    /\ resetReq = << >>
    /\ resetResp = << >>
    /\ rst = NoReset

\* the log validator is not used
LogRests ==
    /\ fileNames = {}
    /\ disk = << >>
    /\ writes = 0
    /\ closed = FALSE
    /\ logState = << >>
    /\ nextId = 1
    /\ taken = << >>
    /\ lreq = << >>
    /\ lpc = << >>
    /\ lwork = << >>
    /\ lmetas = << >>
    /\ lscan = << >>
    /\ lresp = << >>
    /\ client = << >>
    /\ areq = AssertRequest(<< >>, 0)
    /\ apc = "done"
    /\ ag = 0
    /\ ae = 0
    /\ aj = 0
    /\ ait = [logFiles |-> << >>, logFileIndex |-> 0]
    /\ validations = << >>
    /\ aresp = "none"
    /\ resetReqs = {}
    /\ resetReq = << >>
    /\ resetResp = << >>
    /\ rst = NoReset

\* one file of one LogType: one caller listens for "t1", assert expects
\* records of "t1", no reset
InitLogFileVars ==
    InitLogVars({FileE1},
                {<<t>> : t \in T1Types},
                {<< >>},
                {AssertRequest(<<Expect("t1", <<<<"a">>, <<"b">>>>)>>, 1)},
                {})

\* the tailer and assert on one log file that is written
NextLogFile ==
    \/ writeLog(Contents)
    \/ \E l \in Listeners : listen(l)
    \/ \E l \in Listeners : readLogFiles(l)
    \/ \E l \in Listeners : readLogFile(l)
    \/ \E l \in Listeners : readLogRecords(l)
    \/ \E l \in Listeners : listenForChanges(l)
    \/ assertBegin
    \/ assertGroup
    \/ assertExpected
    \/ assertWait
    \/ assertCheck
    \/ assertNext

\* two files of one LogType with an IndexRegExpr: assert expects the
\* records with the keys "a" and "b"
InitLogIndexVars ==
    InitLogVars({FileE1, FileE2},
                {<<T1Indexed>>},
                {<< >>},
                {AssertRequest(<<Expect("t1", <<<<"a">>, <<"b">>>>)>>, 1)},
                {})

\* what is written to the indexed files
IndexContents ==
    {<<"a", "\n">>, <<"b", "\n">>, <<"b", "\n", "a", "\n">>}

\* the tailer and assert on the indexed files
NextLogIndex ==
    \/ writeLog(IndexContents)
    \/ \E l \in Listeners : listen(l)
    \/ \E l \in Listeners : readLogFiles(l)
    \/ \E l \in Listeners : readLogFile(l)
    \/ \E l \in Listeners : readLogRecords(l)
    \/ \E l \in Listeners : listenForChanges(l)
    \/ assertBegin
    \/ assertGroup
    \/ assertExpected
    \/ assertWait
    \/ assertCheck
    \/ assertNext

\* the service with two LogTypes: the first caller listens for "t1", the
\* second for "t2", for "t1" again or for both; one reset request is made;
\* assert is not called
InitLogServiceVars ==
    InitLogVars({FileE1, FileO},
                {<<T1>>},
                {<<T2>>, <<T1>>, <<T2, T1>>},
                {AssertRequest(<< >>, 0)},
                {<<"t1">>, <<"tx", "t2">>, <<"t2", "t1">>})

\* what is written to the files of the service
ServiceContents == {<<"a", "\n">>, <<"a", "\n", "b", "\n">>}

\* the workflow calls listen for caller l after the listen calls of the
\* callers before l have returned
CalledInTurn(l) == \A k \in 1..(l - 1) : lpc[k] \in {"poll", "exited", "failed"}

\* listen, the tailers and reset of the service, until the context is
\* closed
NextLogService ==
    \/ writeLog(ServiceContents)
    \/ closeContext
    \/ \E l \in Listeners : CalledInTurn(l) /\ listen(l)
    \/ \E l \in Listeners : readLogFiles(l)
    \/ \E l \in Listeners : readLogFile(l)
    \/ \E l \in Listeners : readLogRecords(l)
    \/ \E l \in Listeners : listenForChanges(l)
    \/ \E l \in Listeners : tailerExit(l)
    \/ \E names \in ResetRequests : reset(names)
    \/ resetType
    \/ resetState
    \/ resetRecords

\* two tailers: the first caller listens for "t1", the second for "t2";
\* neither assert nor reset is called
InitLogTailerVars ==
    InitLogVars({FileE1, FileO},
                {<<T1>>},
                {<<T2>>},
                {AssertRequest(<< >>, 0)},
                {})

\* a step of the goroutine of caller l: in listen, or in the tailer
tailer(l) ==
    \/ readLogFiles(l)
    \/ readLogFile(l)
    \/ readLogRecords(l)
    \/ tailerExit(l)

\* the two listen calls and their tailers until the context is closed
NextLogTailer ==
    \/ writeLog(ServiceContents)
    \/ closeContext
    \/ \E l \in Listeners : CalledInTurn(l) /\ listen(l)
    \/ \E l \in Listeners : listenForChanges(l)
    \/ \E l \in Listeners : tailer(l)

\* one file of "t1": assert expects two records and waits the default
\* number of rounds, or two rounds
InitLogWaitVars ==
    InitLogVars({FileE1},
                {<<T1>>},
                {<< >>},
                {AssertRequest(<<Expect("t1", <<<<"a">>, <<"b">>>>)>>, r) : r \in {0, 2}},
                {})

\* a step of assert
assert ==
    \/ assertBegin
    \/ assertGroup
    \/ assertExpected
    \/ assertWait
    \/ assertCheck
    \/ assertNext

\* the tailer of the file and assert
NextLogWait ==
    \/ writeLog(ServiceContents)
    \/ \E l \in Listeners : listen(l)
    \/ \E l \in Listeners : listenForChanges(l)
    \/ \E l \in Listeners : readLogFiles(l)
    \/ \E l \in Listeners : readLogFile(l)
    \/ \E l \in Listeners : readLogRecords(l)
    \/ assert

\* one file of "t1": assert expects one record while a reset of "t1" is
\* requested
InitLogResetVars ==
    InitLogVars({FileE1},
                {<<T1>>},
                {<< >>},
                {AssertRequest(<<Expect("t1", <<<<"a">>>>)>>, 1)},
                {<<"t1">>})

\* the tailer of the file, assert and reset
NextLogReset ==
    \/ writeLog(ServiceContents)
    \/ \E l \in Listeners : listen(l)
    \/ \E l \in Listeners : listenForChanges(l)
    \/ \E l \in Listeners : readLogFiles(l)
    \/ \E l \in Listeners : readLogFile(l)
    \/ \E l \in Listeners : readLogRecords(l)
    \/ assert
    \/ \E names \in ResetRequests : reset(names)
    \/ resetType
    \/ resetState
    \/ resetRecords

(***************************************************************************)
(* Locks, accesses and I/O calls.  Each goroutine runs the statements of   *)
(* its function that take or release a mutex, read or write the Records,   *)
(* IndexedRecords or ProcessingState of one LogFile, or call the storage,  *)
(* the workflow source or the event logger, in the order of the source.    *)
(* An access and an I/O call take time: the goroutine enters it and        *)
(* leaves it in two steps.                                                 *)
(***************************************************************************)
NoHolder == "none"

Mutexes == {"service", "workflow", "file"}

Goroutines == {"tailer", "assert", "reset", "publish", "load"}

\* mutex.Lock()
LockOp(m) ==
    [op |-> "lock", mutex |-> m, fields |-> {}, write |-> FALSE, call |-> ""]

\* mutex.Unlock(), deferred or not
UnlockOp(m) ==
    [op |-> "unlock", mutex |-> m, fields |-> {}, write |-> FALSE, call |-> ""]

\* statements that read the fields of the LogFile
ReadOp(fs) ==
    [op |-> "access", mutex |-> "", fields |-> fs, write |-> FALSE, call |-> ""]

\* statements that write (and may read) the fields of the LogFile
WriteOp(fs) ==
    [op |-> "access", mutex |-> "", fields |-> fs, write |-> TRUE, call |-> ""]

\* a call that reads or writes outside the process
IoOp(c) ==
    [op |-> "io", mutex |-> "", fields |-> {}, write |-> FALSE, call |-> c]

\* readLogFiles up to its call of readLogFile
readLogFilesSteps == <<IoOp("List")>>

\* readLogFile with the service mutex released after the download
readLogFileStepsLocked ==
    <<LockOp("service"), IoOp("Download"), IoOp("ReadAll"),
      UnlockOp("service")>>

\* readLogFile up to the content of the candidate
readLogFileSteps ==
    <<LockOp("service"), UnlockOp("service"), IoOp("Download"),
      IoOp("ReadAll")>>

\* LogFile.Reset, called by readLogFile for a file that was rewritten
LogFileResetSteps ==
    <<LockOp("file"), WriteOp({"ProcessingState"}), UnlockOp("file")>>

\* PushLogRecord
PushLogRecordSteps ==
    <<LockOp("file"), WriteOp({"Records", "IndexedRecords"}),
      UnlockOp("file")>>

\* readLogRecords of a content of one line
readLogRecordsSteps ==
    <<ReadOp({"ProcessingState"})>> \o PushLogRecordSteps
        \o <<WriteOp({"ProcessingState"})>>

\* getLogTypeMeta
getLogTypeMetaSteps == <<LockOp("service"), UnlockOp("service")>>

\* HasPendingLogs
HasPendingLogsSteps ==
    <<LockOp("file"), ReadOp({"Records"}), UnlockOp("file")>>

\* ShiftLogRecordByIndex
ShiftLogRecordByIndexSteps ==
    <<LockOp("file"), WriteOp({"Records", "IndexedRecords"}),
      UnlockOp("file")>>

\* reset of one LogType with one LogFile
resetSteps ==
    <<WriteOp({"ProcessingState", "Records"}), WriteOp({"Records"})>>

\* publishEvents(context, events)
publishEventsSteps(evs) ==
    IF Len(evs) > 0
    THEN <<LockOp("workflow"), IoOp("EventLogger.Log"), UnlockOp("workflow")>>
    ELSE << >>

\* loadWorkflow
loadWorkflowSteps ==
    <<IoOp("Dao.Load"), LockOp("workflow"), UnlockOp("workflow")>>

\* the statements of each goroutine: a pass of the tailer over a rewritten
\* file, assert up to the first record it takes, reset, the publishEvents
\* that runAsyncActions defers, and loadWorkflow
Program(g) ==
    CASE g = "tailer" ->
            readLogFilesSteps \o readLogFileSteps \o LogFileResetSteps
                \o readLogRecordsSteps
      [] g = "assert" ->
            getLogTypeMetaSteps \o HasPendingLogsSteps
                \o ShiftLogRecordByIndexSteps
      [] g = "reset" -> resetSteps
      [] g = "publish" -> publishEventsSteps(published)
      [] g = "load" -> loadWorkflowSteps

Running(g) == gat[g] <= Len(Program(g))

Statement(g) == Program(g)[gat[g]]

\* the event streams of a parent context when runAsyncActions clones it
ParentEvents == {<< >>, <<Ev("Task.Init", 1, 0)>>}

InitLockVars ==
    /\ holder = [m \in Mutexes |-> NoHolder]
    /\ gat = [g \in Goroutines |-> 1]
    /\ gin = [g \in Goroutines |-> FALSE]
    /\ \E parentEvents \in ParentEvents :
          published = CloneEvents(parentEvents)

\* no goroutine of this part
LockRests ==
    /\ holder = << >>
    /\ gat = << >>
    /\ gin = << >>
    /\ published = << >>

\* g takes the mutex once no goroutine holds it
Lock(g) ==
    /\ Running(g)
    /\ Statement(g).op = "lock"
    /\ holder[Statement(g).mutex] = NoHolder
    /\ holder' = [holder EXCEPT ![Statement(g).mutex] = g]
    /\ gat' = [gat EXCEPT ![g] = @ + 1]
    /\ UNCHANGED <<gin, published>>
    /\ UNCHANGED otherThanLocks

\* g releases the mutex
Unlock(g) ==
    /\ Running(g)
    /\ Statement(g).op = "unlock"
    /\ holder' = [holder EXCEPT ![Statement(g).mutex] = NoHolder]
    /\ gat' = [gat EXCEPT ![g] = @ + 1]
    /\ UNCHANGED <<gin, published>>
    /\ UNCHANGED otherThanLocks

\* g starts the access or the I/O call it stands at
Enter(g) ==
    /\ Running(g)
    /\ Statement(g).op \in {"access", "io"}
    /\ ~gin[g]
    /\ gin' = [gin EXCEPT ![g] = TRUE]
    /\ UNCHANGED <<holder, gat, published>>
    /\ UNCHANGED otherThanLocks

\* the access is made, the I/O call returns
Leave(g) ==
    /\ Running(g)
    /\ gin[g]
    /\ gin' = [gin EXCEPT ![g] = FALSE]
    /\ gat' = [gat EXCEPT ![g] = @ + 1]
    /\ UNCHANGED <<holder, published>>
    /\ UNCHANGED otherThanLocks

NextLocks ==
    \/ \E g \in Goroutines : Lock(g)
    \/ \E g \in Goroutines : Unlock(g)
    \/ \E g \in Goroutines : Enter(g)
    \/ \E g \in Goroutines : Leave(g)

(***************************************************************************)
(* The specifications.  Each one runs one part of the service; the         *)
(* variables of the other parts rest.                                      *)
(***************************************************************************)
vars == <<runVars, regVars, sessionVars, asyncVars, logVars, lockVars>>

\* no workflow run
RunRests ==
    /\ workflow = << >>
    /\ request = [Tasks |-> << >>]
    /\ pc = "done"
    /\ ti = 0
    /\ ai = 0
    /\ asyncActions = << >>
    /\ events = << >>
    /\ ran = << >>
    /\ taskState = << >>
    /\ taskErr = << >>
    /\ postCount = << >>
    /\ postSeen = << >>
    /\ wpc = << >>
    /\ wres = << >>
    /\ wevents = << >>
    /\ captured = << >>
    /\ err = NilErr
    /\ groupErr = NilErr
    /\ failOrder = << >>
    /\ failed = {}
    /\ asyncRet = << >>
    /\ wfRet = NotReturned
    /\ wfPostErr = NotReturned

\* no request to the registry
RegistryRests == InitRegistryVars

\* no caller of Run
SessionRests ==
    /\ sessionTable = {}
    /\ sessionOf = << >>
    /\ spc = << >>
    /\ started = << >>
    /\ rlock = {}
    /\ wlock = 0
    /\ crashed = FALSE

\* no Run beyond startSession
AsyncRests ==
    /\ async = << >>
    /\ gpc = << >>
    /\ rpc = << >>
    /\ response = << >>
    /\ runEvents = << >>

InitRun == InitRunVars /\ RegistryRests /\ SessionRests /\ AsyncRests /\ LogRests /\ LockRests

InitRegistry == InitRegistryVars /\ RunRests /\ SessionRests /\ AsyncRests /\ LogRests /\ LockRests

InitSession == InitSessionVars /\ RunRests /\ RegistryRests /\ AsyncRests /\ LogRests /\ LockRests

InitAsyncRun ==
    InitSessionVars /\ InitAsyncVars /\ RunRests /\ RegistryRests /\ LogRests /\ LockRests

InitLogFile ==
    InitLogFileVars /\ RunRests /\ RegistryRests /\ SessionRests /\ AsyncRests /\ LockRests

InitLogIndex ==
    InitLogIndexVars /\ RunRests /\ RegistryRests /\ SessionRests /\ AsyncRests /\ LockRests

InitLogService ==
    InitLogServiceVars /\ RunRests /\ RegistryRests /\ SessionRests /\ AsyncRests /\ LockRests

InitLogTailer ==
    InitLogTailerVars /\ RunRests /\ RegistryRests /\ SessionRests /\ AsyncRests /\ LockRests

InitLogWait ==
    InitLogWaitVars /\ RunRests /\ RegistryRests /\ SessionRests /\ AsyncRests /\ LockRests

InitLogReset ==
    InitLogResetVars /\ RunRests /\ RegistryRests /\ SessionRests /\ AsyncRests /\ LockRests

InitLocks ==
    /\ InitLockVars
    /\ RunRests /\ RegistryRests /\ SessionRests /\ AsyncRests /\ LogRests

\* one run of a workflow
SpecRun == InitRun /\ [][NextRun]_vars

\* any sequence of Register, Load and Run requests
SpecRegistry == InitRegistry /\ [][NextRegistry]_vars

\* concurrent callers of Run in startSession
SpecSession == InitSession /\ [][NextSession]_vars

\* the log validator with one log file of one LogType
SpecLogFile == InitLogFile /\ [][NextLogFile]_vars

\* the log validator with two log files of one indexed LogType
SpecLogIndex == InitLogIndex /\ [][NextLogIndex]_vars

\* the log validator service with two LogTypes, two callers of listen,
\* assert and reset
SpecLogService == InitLogService /\ [][NextLogService]_vars

\* two tailers and the close of the context; a goroutine that can step
\* does so: the Go scheduler runs it, and its Sleep and its storage calls
\* return
SpecLogTailer ==
    /\ InitLogTailer
    /\ [][NextLogTailer]_vars
    /\ \A l \in Listeners : WF_vars(tailer(l))

\* assert waiting for the records of one file; the goroutine that called
\* assert is run by the scheduler and its Sleep returns
SpecLogWait ==
    /\ InitLogWait
    /\ [][NextLogWait]_vars
    /\ WF_vars(assert)

\* assert on one log file while reset is called
SpecLogReset == InitLogReset /\ [][NextLogReset]_vars

\* the goroutines of the log validator and of the workflow service with
\* their mutexes, their accesses to one LogFile and their I/O calls
SpecLocks == InitLocks /\ [][NextLocks]_vars

\* concurrent callers of Run, sync and async, with the goroutines they
\* start; the Go scheduler lets every goroutine that can step do so
SpecAsyncRun ==
    /\ InitAsyncRun
    /\ [][NextAsyncRun]_vars
    /\ \A p \in Callers : WF_vars(RunStep(p))

(***************************************************************************)
(* Properties of one workflow run (SpecRun).                               *)
(***************************************************************************)
\* the async workers in the variables are those of task t, and
\* runAsyncActions has returned for it
AsyncReturned(t) == t \in DOMAIN workflow /\ t = ti /\ asyncRet[t] # NotReturned

\* the number of actions of task t declared with Async = true
NumAsync(t) ==
    Cardinality({a \in DOMAIN workflow[t].Actions : workflow[t].Actions[a].Async})

IsSync(t, a) == ~workflow[t].Actions[a].Async

\* C1: if the runAction of at least one async worker of a task returned an
\* error, runAsyncActions returns a non-nil error once all workers joined.
C1_WorkerErrorReturned ==
    \A t \in DOMAIN workflow :
        (AsyncReturned(t) /\ \E i \in DOMAIN wres : wres[i] # NilErr)
            => asyncRet[t] # NilErr

\* C2: when task.Post is applied every async worker of the task has run its
\* action and is done, and when runAsyncActions returns every async action
\* of the task has been run to its end by a worker, whatever the other
\* workers returned.
C2_PostAfterAllWorkers ==
    /\ \A t \in DOMAIN workflow :
          postSeen[t].taken =>
              /\ Len(postSeen[t].wpc) = NumAsync(t)
              /\ \A i \in DOMAIN postSeen[t].wpc :
                    /\ postSeen[t].wpc[i] = "done"
                    /\ postSeen[t].wres[i] # NotReturned
    /\ \A t \in DOMAIN workflow :
          AsyncReturned(t) =>
              /\ Len(wres) = NumAsync(t)
              /\ \A i \in DOMAIN wres : wres[i] # NotReturned /\ wpc[i] = "done"

\* task.Post was applied after two workers ran, one of which had failed
C2_Witness ==
    \E t \in DOMAIN workflow :
        /\ postSeen[t].taken
        /\ Len(postSeen[t].wres) >= 2
        /\ \E i \in DOMAIN postSeen[t].wres : postSeen[t].wres[i] # NilErr

\* C3: when task.Post is applied, the event stream of the parent context
\* holds every event that each async worker of the task put in the stream
\* of its own context.
C3_WorkerEventsPublished ==
    \A t \in DOMAIN workflow :
        postSeen[t].taken =>
            \A i \in DOMAIN postSeen[t].wevents :
                \A k \in DOMAIN postSeen[t].wevents[i] :
                    \E j \in DOMAIN postSeen[t].events :
                        postSeen[t].events[j] = postSeen[t].wevents[i][k]

\* C4: the tasks run one at a time in declared order, and after the first
\* task that returns an error no later task is run and runWorkflow returns
\* that error.
C4_TasksInOrder ==
    /\ \A k \in DOMAIN workflow :
          (k > 1 /\ taskState[k] # "pending") => taskState[k - 1] = "returned"
    /\ \A p, q \in DOMAIN ran : p < q => ran[p][1] <= ran[q][1]
    /\ \A k \in DOMAIN workflow :
          (taskState[k] = "returned" /\ taskErr[k] # NilErr) =>
              /\ \A j \in DOMAIN workflow : j > k => taskState[j] = "pending"
              /\ \A p \in DOMAIN ran : ran[p][1] <= k
              /\ wfRet = taskErr[k]

\* the first of two tasks ran an action and returned an error
C4_Witness ==
    /\ Len(workflow) = 2
    /\ taskState[1] = "returned"
    /\ taskErr[1] # NilErr
    /\ \E p \in DOMAIN ran : ran[p][1] = 1
    /\ pc = "done"

\* C5: the synchronous actions of a task run in declared order, and after
\* the first synchronous action that fails no later action of the task,
\* synchronous or asynchronous, is run and task.Post is not applied.
C5_SyncActionsInOrder ==
    /\ \A p, q \in DOMAIN ran :
          (/\ p < q
           /\ ran[p][1] = ran[q][1]
           /\ IsSync(ran[p][1], ran[p][2])
           /\ IsSync(ran[q][1], ran[q][2])) => ran[p][2] < ran[q][2]
    /\ \A f \in failed :
          IsSync(f[1], f[2]) =>
              /\ postCount[f[1]] = 0
              /\ \A p \in DOMAIN ran :
                    ran[p][1] = f[1] =>
                        /\ ran[p][2] <= f[2]
                        /\ IsSync(ran[p][1], ran[p][2])

\* a synchronous action failed in a task that declares an async action
\* before it and another action after it
C5_Witness ==
    \E f \in failed :
        /\ IsSync(f[1], f[2])
        /\ f[2] < Len(workflow[f[1]].Actions)
        /\ \E a \in 1..(f[2] - 1) : ~IsSync(f[1], a)
        /\ taskState[f[1]] = "returned"

\* C6: when two or more async workers of a task fail, runAsyncActions
\* returns the error of the worker that failed first.
C6_FirstErrorWins ==
    \A t \in DOMAIN workflow :
        (AsyncReturned(t) /\ Len(failOrder) >= 2) =>
            asyncRet[t] = FailedToRun(t, asyncActions[failOrder[1]],
                                      ServiceErr(t, asyncActions[failOrder[1]]))

\* the entries of request.Tasks, and the one that names a task with indices
SelectorEntries(tasks) == Split(tasks, ",")

IsEntryOf(entry, name) == Contains(entry, "=") /\ Split(entry, "=")[1] = name

HasEntry(name, tasks) ==
    \E k \in DOMAIN SelectorEntries(tasks) : IsEntryOf(SelectorEntries(tasks)[k], name)

\* the 0-based indices that the entry name=i:j:... lists
EntryIndices(name, tasks) ==
    LET es == SelectorEntries(tasks)
        k == CHOOSE x \in DOMAIN es :
                 IsEntryOf(es[x], name) /\ \A y \in 1..(x - 1) : ~IsEntryOf(es[y], name)
    IN  {AsInt(x) : x \in Range(Split(Split(es[k], "=")[2], ":"))}

\* C7: with the entry T=i:j:... in request.Tasks, task T passes the selector,
\* and a run of T that reaches task.Post has run exactly T's synchronous
\* actions at the listed 0-based indices.
C7_SelectedActionsRun ==
    \A t \in DOMAIN workflow :
        (HasEntry(workflow[t].Name, request.Tasks) /\ taskState[t] = "returned") =>
            /\ \E j \in DOMAIN events : events[j] = Ev("Task.Init", t, 0)
            /\ postCount[t] > 0 =>
                  {a \in DOMAIN workflow[t].Actions :
                      IsSync(t, a) /\ \E p \in DOMAIN ran : ran[p] = <<t, a>>}
                    = {a \in DOMAIN workflow[t].Actions :
                          IsSync(t, a)
                          /\ (a - 1) \in EntryIndices(workflow[t].Name, request.Tasks)}

(***************************************************************************)
(* Properties of the session table (SpecSession).                          *)
(***************************************************************************)
\* C8: of the concurrent callers that carry one SessionID that was not in
\* the table, exactly one gets true from startSession, and when they have
\* all returned the SessionID is in the table.
C8_ExactlyOneStarts ==
    \A s \in SessionIDs :
        LET cs == {p \in Callers : sessionOf[p] = s}
        IN  (cs # {} /\ \A p \in cs : spc[p] = "returned") =>
                /\ Cardinality({p \in cs : started[p] = "true"}) = 1
                /\ s \in sessionTable

(***************************************************************************)
(* Properties of the registry (SpecRegistry).                              *)
(***************************************************************************)
\* C9: every workflow in the registry passes Validate and is stored under
\* its own name, and a Register or Load of a workflow that fails Validate
\* is answered with an error and leaves the registry as it was.
C9_RegistryValid ==
    /\ \A n \in DOMAIN registry : Validate(registry[n]) /\ registry[n].Name = n
    /\ (/\ regReq.kind \in {"register", "load"}
        /\ regReq.workflow # NoWorkflow
        /\ ~Validate(regReq.workflow)) =>
            /\ regResp.Status = "err"
            /\ registry = regBefore

\* a Load of an invalid workflow was refused while workflows are registered
C9_Witness ==
    /\ regReq.kind = "load"
    /\ regReq.workflow # NoWorkflow
    /\ ~Validate(regReq.workflow)
    /\ DOMAIN registry # {}

AsyncCompleted(p) == async[p] /\ gpc[p] = "ended" /\ started[p] = "true"

\* C11: a Run with Async returns a response holding only the SessionID while
\* its workflow has not run yet; once the background workflow has completed,
\* the Run starts removeSession if and only if its startSession returned
\* true, and then removeSession eventually deletes the session from the
\* session table.
C11_AsyncSessionRemoved ==
    /\ [](\A p \in Callers :
            /\ (async[p] /\ response[p] # NoResponse)
                  => response[p] = AsyncResponse(sessionOf[p])
            /\ (async[p] /\ gpc[p] = "ended")
                  => (rpc[p] # "none" <=> started[p] = "true"))
    /\ [][\A p \in Callers :
             (rpc[p] # "done" /\ rpc'[p] = "done")
                => sessionOf[p] \notin sessionTable']_vars
    /\ \A p \in Callers : AsyncCompleted(p) ~> (rpc[p] = "done")

\* the same where the Go runtime does not end the process
C11_RemovedUnlessCrashed ==
    /\ [](\A p \in Callers :
            /\ (async[p] /\ response[p] # NoResponse)
                  => response[p] = AsyncResponse(sessionOf[p])
            /\ (async[p] /\ gpc[p] = "ended")
                  => (rpc[p] # "none" <=> started[p] = "true"))
    /\ [][\A p \in Callers :
             (rpc[p] # "done" /\ rpc'[p] = "done")
                => sessionOf[p] \notin sessionTable']_vars
    /\ \A p \in Callers : AsyncCompleted(p) ~> (crashed \/ rpc[p] = "done")


(***************************************************************************)
(* Properties of the log validator.                                        *)
(***************************************************************************)
\* the LogFiles of the service: <<LogType name, file name>>
LogFileKeys ==
    {<<key, name>> \in (DOMAIN logState) \X fileNames :
        name \in DOMAIN logState[key].LogFiles}

LogFileOf(k) == logState[k[1]].LogFiles[k[2]]

\* the lines of data that an end of line closes, trimmed and numbered from n
RECURSIVE LinesOf(_, _)
LinesOf(data, n) ==
    IF LineEnds(data, 0) = {} THEN << >>
    ELSE LET end == CHOOSE k \in LineEnds(data, 0) : \A j \in LineEnds(data, 0) : k <= j
         IN  <<[Number |-> n, Line |-> Trim(SubSeq(data, 1, end - 1))]>>
             \o LinesOf(SubSeq(data, end + 1, Len(data)), n + 1)

\* number and line of a record
NumberAndLine(r) == [Number |-> r.Number, Line |-> r.Line]

\* the records assert has taken from the LogFile k
TakenFrom(k) ==
    SelectSeq(taken, LAMBDA t : t.type = k[1] /\ t.name = k[2])

\* C12: Records of a LogFile holds exactly the non-empty lines of the
\* current Content up to ProcessingState.Position that pass the filters, in
\* file order, without the records already taken by a shift.
C12_RecordsAreLinesOfContent ==
    \A k \in LogFileKeys :
       LET f == LogFileOf(k)
           lines == LinesOf(SubSeq(f.Content, 1, f.ProcessingState.Position), 1)
           passing == SelectSeq(lines, LAMBDA r :
                          Len(r.Line) > 0 /\ ~Filtered(logState[k[1]].LogType, r.Line))
           consumed == {NumberAndLine(TakenFrom(k)[j].record) : j \in DOMAIN TakenFrom(k)}
       IN  [j \in DOMAIN f.Records |-> NumberAndLine(f.Records[j])]
              = SelectSeq(passing, LAMBDA r : r \notin consumed)


\* the identities of the records of a sequence
Ids(records) == [j \in DOMAIN records |-> records[j].id]

\* the numbers of the sequence s increase
Increasing(s) == \A i, j \in DOMAIN s : i < j => s[i] < s[j]

\* C13: without an IndexRegExpr the records assert takes from a LogFile are
\* taken in the order the tailer pushed them: each one was pushed before the
\* next one taken and before every record still queued.
C13_TakenInArrivalOrder ==
    \A k \in LogFileKeys :
       ~UseIndex(logState[k[1]].LogType) =>
          Increasing([j \in DOMAIN TakenFrom(k) |-> TakenFrom(k)[j].record.id]
                     \o Ids(LogFileOf(k).Records))

\* two records were taken from a LogFile without index while a record
\* pushed later is queued
C13_Witness ==
    \E k \in LogFileKeys :
       /\ ~UseIndex(logState[k[1]].LogType)
       /\ Len(TakenFrom(k)) = 2
       /\ Len(LogFileOf(k).Records) > 0


\* the caller l of readLogFile is about to read a tracked file whose content
\* on storage is strictly shorter than the cached Content
ObservesShorter(l) ==
    /\ lpc[l] = "file"
    /\ lwork[l] # << >>
    /\ <<Head(lwork[l]).type.Name, Head(lwork[l]).name>> \in LogFileKeys
    /\ Len(disk[Head(lwork[l]).name].content)
          < Len(LogFileOf(<<Head(lwork[l]).type.Name, Head(lwork[l]).name>>).Content)

\* the readLogFile step of l downloads a shorter content: the LogFile has
\* the new content and ProcessingState {0, 0}, and readLogRecords starts at
\* offset 0 and line 0
ShorterResets(l) ==
    LET k == <<Head(lwork[l]).type.Name, Head(lwork[l]).name>>
        after == logState'[k[1]].LogFiles[k[2]]
    IN  (ObservesShorter(l) /\ readLogFile(l) /\ lpc'[l] \notin {"failed", "exited"})
           => /\ after.ProcessingState = NewProcessingState
              /\ after.Content = disk[k[2]].content
              /\ after.Records = LogFileOf(k).Records
              /\ lpc'[l] = "scan" =>
                    /\ lscan'[l].startPosition = 0
                    /\ lscan'[l].startLine = 0
                    /\ lscan'[l].data = disk[k[2]].content

\* a readLogRecords step of l that started at offset 0 and line 0 handles
\* the next line of the data: the line is queued under its line number in
\* the data if it is not empty and passes the filters, else nothing is
\* queued
EmitsNextLine(l) ==
    LET scan == lscan[l]
        k == <<scan.type, scan.name>>
        n == Cardinality(LineEnds(SubSeq(scan.data, 1, scan.i), 0)) + 1
        line == LinesOf(scan.data, 1)[n]
        before == LogFileOf(k).Records
        after == logState'[k[1]].LogFiles[k[2]].Records
    IN  (readLogRecords(l) /\ scan.startPosition = 0 /\ scan.startLine = 0)
           => IF Len(line.Line) > 0 /\ ~Filtered(logState[k[1]].LogType, line.Line)
              THEN /\ Len(after) = Len(before) + 1
                   /\ SubSeq(after, 1, Len(before)) = before
                   /\ NumberAndLine(after[Len(after)]) = line
              ELSE after = before

\* C15: when readLogFile finds the content of a tracked file strictly
\* shorter than the cached Content, ProcessingState becomes Line 0 /
\* Position 0, and readLogRecords emits the lines of the new content from
\* offset 0 with record numbers from 1.
C15_ShorterContentRestarts ==
    [][\A l \in Listeners : ShorterResets(l) /\ EmitsNextLine(l)]_vars

\* the file shrank from "a\nb\n" to "b\n": line 1 of the old content and
\* line 1 of the new content have both been queued
C15_Witness ==
    \E k \in LogFileKeys :
       LET all == {NumberAndLine(TakenFrom(k)[j].record) : j \in DOMAIN TakenFrom(k)}
                  \cup {NumberAndLine(LogFileOf(k).Records[j]) :
                           j \in DOMAIN LogFileOf(k).Records}
       IN  /\ LogFileOf(k).Content = <<"b", "\n">>
           /\ LogFileOf(k).ProcessingState = [Line |-> 1, Position |-> 2]
           /\ [Number |-> 1, Line |-> <<"a">>] \in all
           /\ [Number |-> 1, Line |-> <<"b">>] \in all


\* the index key of a line under the LogType key
KeyOf(key, line) == matchLogIndex(logState[key].LogType.IndexRegExpr, line)

\* the records of the LogType key that are queued, in any of its files
QueuedOf(key) ==
    UNION {{logState[key].LogFiles[n].Records[j] :
               j \in DOMAIN logState[key].LogFiles[n].Records} :
           n \in DOMAIN logState[key].LogFiles}

\* assert takes a record for an expected record with a key while a record
\* of the LogType with that key is queued: the record taken has the key
TakesByKey ==
    LET key == Group.Type
        indexValue == KeyOf(key, Group.Records[ae])
    IN  (/\ assertNext
         /\ UseIndex(logState[key].LogType)
         /\ indexValue # << >>
         /\ \E r \in QueuedOf(key) : KeyOf(key, r.Line) = indexValue)
            => /\ Len(taken') = Len(taken) + 1
               /\ KeyOf(key, taken'[Len(taken')].record.Line) = indexValue

\* the records of the LogType key queued at any time have distinct keys,
\* and each key is the key of exactly one expected record of the group g
EachKeyAssertedOnce(key, g) ==
    LET all == QueuedOf(key) \cup
               {taken[j].record : j \in {i \in DOMAIN taken : taken[i].type = key}}
    IN  /\ all # {}
        /\ \A r \in all : KeyOf(key, r.Line) # << >>
        /\ \A r, q \in all : KeyOf(key, r.Line) = KeyOf(key, q.Line) => r = q
        /\ \A r \in all :
              Cardinality({e \in DOMAIN g.Records :
                              KeyOf(key, g.Records[e]) = KeyOf(key, r.Line)}) = 1

\* C14: for a LogType with IndexRegExpr an expected record with a non-empty
\* index key is compared with the queued record of the LogType that has the
\* same key, in whatever order the records arrived, and when every queued
\* key has been asserted once no record is left in Records.
C14_AssertedByKey ==
    /\ [][TakesByKey]_vars
    /\ [](\A g \in DOMAIN Groups :
             (/\ apc = "done"
              /\ aresp = "ok"
              /\ HasMeta(Groups[g].Type)
              /\ UseIndex(logState[Groups[g].Type].LogType)
              /\ EachKeyAssertedOnce(Groups[g].Type, Groups[g])
              /\ \A v \in DOMAIN validations : validations[v].Actual # NilRecord)
                 => QueuedOf(Groups[g].Type) = {})


(***************************************************************************)
(* Properties of the log validator service (SpecLogService).               *)
(***************************************************************************)
\* the listen request of caller l names a LogType that is registered
NamesRegistered(l) == \E k \in DOMAIN lreq[l] : HasMeta(lreq[l][k].Name)

\* C17: a listen request that names a LogType already registered fails,
\* leaves the registered LogTypeMeta entries with their LogFiles, Records
\* and ProcessingState as they were, and starts no tailer.
C17_RelistenRejected ==
    /\ [][\A l \in Listeners :
             (lpc[l] = "call" /\ lpc'[l] # "call" /\ NamesRegistered(l))
                => /\ lresp'[l] = "registered"
                   /\ lpc'[l] = "failed"
                   /\ logState' = logState
                   /\ client' = client]_vars
    /\ [](\A l \in Listeners :
             lresp[l] = "registered" =>
                 /\ lpc[l] = "failed"
                 /\ client[l] = "none"
                 /\ lwork[l] = << >>
                 /\ lscan[l] = NoScan)

\* the second listen named "t1" and was refused while the tailer of the
\* first had queued a record of "t1"
C17_Witness ==
    /\ lresp[2] = "registered"
    /\ lresp[1] = "ok"
    /\ client[1] = "open"
    /\ HasMeta("t1")
    /\ \E n \in DOMAIN logState["t1"].LogFiles :
          Len(logState["t1"].LogFiles[n].Records) > 0


\* the LogTypes that the listen request of caller l names
NamesOf(l) == {lreq[l][k].Name : k \in DOMAIN lreq[l]}

\* C31: a listen call that returns an error of its initial readLogFiles (a
\* list or a download failure) leaves no LogTypeMeta registered for the
\* LogTypes it names, so that a later listen is rejected as already
\* registered only for a LogType that a listen that succeeded registered.
C31_FailedListenRegistersNothing ==
    /\ [][\A l \in Listeners :
             (lresp[l] # "err" /\ lresp'[l] = "err")
                => \A n \in NamesOf(l) : n \notin DOMAIN logState']_vars
    /\ [](\A l \in Listeners :
             lresp[l] = "registered" =>
                 \E m \in Listeners :
                     lresp[m] = "ok" /\ NamesOf(m) \cap NamesOf(l) # {})

\* the LogFiles of every LogType but the file `name` of `key` stay as they
\* are, and no LogTypeMeta is added or removed
OnlyFileChanges(key, name) ==
    /\ DOMAIN logState' = DOMAIN logState
    /\ \A t \in DOMAIN logState :
          /\ logState'[t].LogType = logState[t].LogType
          /\ DOMAIN logState'[t].LogFiles = DOMAIN logState[t].LogFiles
          /\ \A n \in DOMAIN logState[t].LogFiles :
                <<t, n>> # <<key, name>> =>
                    logState'[t].LogFiles[n] = logState[t].LogFiles[n]

\* what a step of reset does, by the place reset stands at
ResetStepEffect ==
    LET key == resetReq[rst.n]
        name == Head(rst.files)
        f == logState[key].LogFiles[name]
        after == logState'[key].LogFiles[name]
    IN  CASE rst.pc = "file" ->
                /\ key \in {resetReq[k] : k \in DOMAIN resetReq}
                /\ OnlyFileChanges(key, name)
                /\ after = [f EXCEPT !.ProcessingState =
                                        [Position |-> f.Size, Line |-> Len(f.Records)]]
                /\ resetResp' = resetResp
          [] rst.pc = "records" ->
                /\ OnlyFileChanges(key, name)
                /\ after = [f EXCEPT !.Records = << >>]
                /\ resetResp' = Append(resetResp, name)
          [] rst.pc = "type" /\ rst.n <= Len(resetReq) ->
                /\ logState' = logState
                /\ resetResp' = resetResp
                /\ IF HasMeta(key) /\ DOMAIN logState[key].LogFiles # {}
                   THEN /\ rst'.pc = "file"
                        /\ rst'.n = rst.n
                        /\ Len(rst'.files) = Cardinality(DOMAIN logState[key].LogFiles)
                        /\ {rst'.files[j] : j \in DOMAIN rst'.files}
                              = DOMAIN logState[key].LogFiles
                   ELSE rst' = [rst EXCEPT !.n = @ + 1]
          [] OTHER -> logState' = logState /\ resetResp' = resetResp

\* C18: reset of the named LogTypes gives each of their LogFiles the
\* ProcessingState {Position: Size, Line: len(Records)} and empty Records,
\* returns the names of exactly those files, leaves the LogFiles of the
\* other LogTypes as they are, and passes over names that are not
\* registered without an error.
C18_ResetFrame ==
    /\ [][rst' # rst => ResetStepEffect]_vars
    /\ [](rst.pc = "done" =>
             /\ \A j \in DOMAIN resetResp :
                   \E k \in DOMAIN resetReq :
                      /\ HasMeta(resetReq[k])
                      /\ resetResp[j] \in DOMAIN logState[resetReq[k]].LogFiles
             /\ rst.n = Len(resetReq) + 1)

\* reset of "tx" and "t2" has returned the file of "t2", whose records are
\* gone and counted in Line, while "t1" keeps its record; "tx" is not
\* registered
C18_Witness ==
    /\ rst.pc = "done"
    /\ resetReq = <<"tx", "t2">>
    /\ resetResp = <<FileO>>
    /\ ~HasMeta("tx")
    /\ HasMeta("t1")
    /\ HasMeta("t2")
    /\ FileE1 \in DOMAIN logState["t1"].LogFiles
    /\ FileO \in DOMAIN logState["t2"].LogFiles
    /\ Len(logState["t1"].LogFiles[FileE1].Records) > 0
    /\ logState["t2"].LogFiles[FileO].Records = << >>
    /\ logState["t2"].LogFiles[FileO].ProcessingState
          = [Position |-> logState["t2"].LogFiles[FileO].Size, Line |-> 2]


\* C20: in every reachable state of a LogFile, whatever the interleaving of
\* readLogFile passes, rotations, failed downloads and resets,
\* ProcessingState.Position is at most len(Content).
C20_PositionWithinContent ==
    \A k \in LogFileKeys :
        LogFileOf(k).ProcessingState.Position <= Len(LogFileOf(k).Content)


(***************************************************************************)
(* Properties of the tailers (SpecLogTailer).                              *)
(***************************************************************************)
\* the tailer of caller l runs
Tailing(l) == client[l] = "open"

\* C19: after the context is closed every tailer stops polling; a tailer
\* that exits, by the closed context or by an error of readLogFiles, closes
\* its storage client; the error ends that tailer only and the listen call
\* that started it keeps its answer.
C19_TailerStops ==
    /\ closed ~> (\A l \in Listeners : ~Tailing(l))
    /\ [](\A l \in Listeners : lpc[l] = "exited" => client[l] = "closed")
    /\ [][\A l \in Listeners :
             (Tailing(l) /\ lpc'[l] # lpc[l] /\ lpc'[l] \notin {"poll", "file", "scan"})
                => /\ lpc'[l] = "exited"
                   /\ client'[l] = "closed"
                   /\ lresp[l] = "ok"
                   /\ lresp' = lresp
                   /\ \A k \in Listeners \ {l} :
                         lpc'[k] = lpc[k] /\ client'[k] = client[k]]_vars
    /\ [][\A l \in Listeners : (Tailing(l) /\ ~Tailing(l)') => lpc'[l] = "exited"]_vars

\* the tailer of the first caller has ended on an error of readLogFiles
\* and closed its client while the context is open and the second tailer
\* goes on
C19_Witness ==
    /\ ~closed
    /\ lpc[1] = "exited"
    /\ client[1] = "closed"
    /\ lresp[1] = "ok"
    /\ Tailing(2)
    /\ lpc[2] = "scan"


(***************************************************************************)
(* Properties of the wait of assert (SpecLogWait).                         *)
(***************************************************************************)
\* no record of the current group is queued for the iterator of assert
NothingQueued == ~HasNext(ait, Group.Type).has

\* C16: for each expected record assert waits at most LogWaitRetryCount
\* rounds, with one Sleep event a round, for a queued record; when none is
\* queued after the last round it adds the failure "missing log record" to
\* Validations and returns without an error and without taking up the
\* expected records that follow; assert terminates.
C16_BoundedWait ==
    /\ [](/\ aj <= LogWaitRetryCount
          /\ \A v \in DOMAIN validations : validations[v].Sleeps <= LogWaitRetryCount)
    /\ [][(apc = "wait" /\ apc' # "wait" /\ NothingQueued) => aj' = LogWaitRetryCount]_vars
    /\ [][(apc = "wait" /\ aj' # aj) =>
             /\ NothingQueued
             /\ aj' = aj + 1
             /\ validations'[Len(validations)].Sleeps = aj']_vars
    /\ [][(apc = "check" /\ apc' # "check" /\ NothingQueued) =>
             /\ validations'[Len(validations)].Failure = "missing log record"
             /\ Len(validations') = Len(validations)
             /\ aresp' = "ok"
             /\ apc' = "done"]_vars
    /\ [](\A v \in DOMAIN validations :
             validations[v].Failure = "missing log record" =>
                 /\ v = Len(validations)
                 /\ validations[v].Sleeps = LogWaitRetryCount
                 /\ validations[v].Actual = NilRecord
                 /\ Len(taken) = v - 1
                 /\ apc = "done"
                 /\ aresp = "ok")
    /\ <>(apc = "done")

\* assert waited the default three rounds for the first of two expected
\* records and returned with the failure, the second one not taken up
C16_Witness ==
    /\ areq.LogWaitRetryCount = 0
    /\ apc = "done"
    /\ aresp = "ok"
    /\ Len(validations) = 1
    /\ validations[1].Failure = "missing log record"
    /\ validations[1].Sleeps = DefaultLogWaitRetryCount
    /\ Len(areq.ExpectedLogRecords[1].Records) = 2


(***************************************************************************)
(* Properties of the index of a LogFile (SpecLogFile).                     *)
(***************************************************************************)
\* the record is one of the records queued in the LogFile f (as a pointer)
InRecords(f, record) == \E j \in DOMAIN f.Records : f.Records[j].id = record.id

\* C21: in every reachable state of a LogFile each key of IndexedRecords
\* maps to a record that is in Records at that time, after pushes, shifts
\* from the head, shifts by index, rotations and resets.
C21_IndexedAreQueued ==
    \A k \in LogFileKeys :
        \A key \in DOMAIN LogFileOf(k).IndexedRecords :
            InRecords(LogFileOf(k), LogFileOf(k).IndexedRecords[key])


\* the index values a call of ShiftLogRecordByIndex is made with
IndexValues == {<<"a">>, <<"b">>, <<"c">>}

\* the records but the one at position j
WithoutPosition(records, j) ==
    SubSeq(records, 1, j - 1) \o SubSeq(records, j + 1, Len(records))

\* what C22 says of ShiftLogRecordByIndex(value) on the LogFile f
ShiftsByIndex(f, value) ==
    LET shift == ShiftLogRecordByIndex(f, value)
    IN  /\ shift.file = [f EXCEPT !.Records = shift.file.Records]
        /\ IF value \in DOMAIN f.IndexedRecords
           THEN /\ shift.record = f.IndexedRecords[value]
                /\ \E j \in DOMAIN f.Records :
                      /\ f.Records[j].id = shift.record.id
                      /\ shift.file.Records = WithoutPosition(f.Records, j)
           ELSE IF f.Records = << >>
                THEN shift.record = NilRecord /\ shift.file.Records = << >>
                ELSE /\ shift.record = f.Records[1]
                     /\ shift.file.Records = WithoutPosition(f.Records, 1)

\* C22: ShiftLogRecordByIndex(key) returns the record indexed under a key
\* that is in IndexedRecords and removes exactly that record from Records,
\* the others keeping their order; for a key that is not in IndexedRecords
\* it returns and removes the head of Records.
C22_ShiftByIndex ==
    \A k \in LogFileKeys :
        \A value \in IndexValues : ShiftsByIndex(LogFileOf(k), value)

\* C22 for the LogFiles whose indexed records are all queued
C22_ShiftByIndexOfQueued ==
    \A k \in LogFileKeys :
        (\A key \in DOMAIN LogFileOf(k).IndexedRecords :
            InRecords(LogFileOf(k), LogFileOf(k).IndexedRecords[key]))
           => \A value \in IndexValues : ShiftsByIndex(LogFileOf(k), value)


(***************************************************************************)
(* More properties of one workflow run (SpecRun).                          *)
(***************************************************************************)
\* runTask has returned for task t without an error
ReturnedNil(t) == taskState[t] = "returned" /\ taskErr[t] = NilErr

\* task t passed its gate: the selector allowed it and RunCriteria found it
\* eligible, so that its Begin event was added
PassedGate(t) == \E j \in DOMAIN events : events[j] = Ev("Begin", t, 0)

\* C23 as stated: whenever runTask returns without error, task.Post has
\* been applied exactly once during that call.
C23_PostOnce ==
    \A t \in DOMAIN workflow : ReturnedNil(t) => postCount[t] = 1

\* C23 as amended: whenever runTask returns without error for a task that
\* passed its gate, task.Post has been applied exactly once during that
\* call; for a task that the selector or RunCriteria left out runTask
\* returns without error and task.Post has not been applied; task.Post is
\* never applied twice.
C23_PostOnceWhenRun ==
    \A t \in DOMAIN workflow :
        /\ postCount[t] <= 1
        /\ ReturnedNil(t) => postCount[t] = IF PassedGate(t) THEN 1 ELSE 0

\* the first task was left out and returned without error and without
\* Post, the second ran an action and returned after one Post
C23_Witness ==
    /\ Len(workflow) = 2
    /\ ReturnedNil(1)
    /\ ~PassedGate(1)
    /\ postCount[1] = 0
    /\ ReturnedNil(2)
    /\ PassedGate(2)
    /\ postCount[2] = 1
    /\ \E p \in DOMAIN ran : ran[p][1] = 2


\* the AsyncServiceAction events of task t in the event stream
AsyncEvents(t) ==
    {j \in DOMAIN events :
        events[j].type = "AsyncServiceAction" /\ events[j].task = t}

\* C24: for every run of a task that declares async actions and passes its
\* gate, the event stream holds as many AsyncServiceAction events of the
\* task as the task declares actions with Async = true.
C24_AsyncEventPerAction ==
    \A t \in DOMAIN workflow :
        (taskState[t] = "returned" /\ PassedGate(t) /\ NumAsync(t) > 0)
            => Cardinality(AsyncEvents(t)) = NumAsync(t)

\* C24 for the runs in which no synchronous action of the task failed
C24_AsyncEventPerActionUnlessFailed ==
    \A t \in DOMAIN workflow :
        (/\ taskState[t] = "returned"
         /\ PassedGate(t)
         /\ NumAsync(t) > 0
         /\ \A f \in failed : f[1] = t => ~IsSync(t, f[2]))
            => /\ Cardinality(AsyncEvents(t)) = NumAsync(t)
               /\ \A a \in DOMAIN workflow[t].Actions :
                     workflow[t].Actions[a].Async =>
                         \E j \in AsyncEvents(t) : events[j].action = a


\* C28: no log record is delivered twice: a record that a shift returned
\* to assert is not returned by a later shift on that LogFile.
C28_DeliveredOnce ==
    \A i, j \in DOMAIN taken :
        (/\ i < j
         /\ taken[i].type = taken[j].type
         /\ taken[i].name = taken[j].name)
            => taken[i].record.id # taken[j].record.id

\* C29: whenever assert calls iterator.Next after HasNext returned true,
\* the shift returns a record, also when a reset empties the queue between
\* the check and the shift: assert never reads the Line of a nil record.
C29_NextReturnsRecord == aresp # "panic"

\* the workflow run of caller q is executing: startSession has returned
\* and runWorkflow has not, in the caller or in the goroutine of an async
\* Run
Executing(q) ==
    /\ spc[q] = "returned"
    /\ IF async[q] THEN gpc[q] \in {"none", "started"}
                   ELSE response[q] = NoResponse

\* C30: a session entry is never deleted from the session table while a
\* workflow run that carries its SessionID is still executing.
C30_SessionKeptWhileRunning ==
    [][\A id \in sessionTable \ sessionTable' :
          \A q \in Callers : sessionOf[q] = id => ~Executing(q)]_vars

\* Status of the response of Run for a WorkflowRunRequest that is not
\* async, from the error runWorkflow returned
RunStatus(e) == SyncResponse("", IF e # NilErr THEN "err" ELSE "ok").Status

\* C27: if applying workflow.Post fails, runWorkflow returns that error and
\* the response of Run has Status "err".
C27_WorkflowPostErrorSurfaced ==
    (pc = "done" /\ wfPostErr \notin {NotReturned, NilErr})
        => /\ wfRet = wfPostErr
           /\ RunStatus(wfRet) = "err"

(***************************************************************************)
(* Properties of the locks (SpecLocks).                                    *)
(***************************************************************************)
\* g is inside an access to the fields of the LogFile
Accessing(g) == Running(g) /\ gin[g] /\ Statement(g).op = "access"

\* g is inside an I/O call
InIo(g) == Running(g) /\ gin[g] /\ Statement(g).op = "io"

\* g and h are inside accesses to one field, one of them a write
Race(g, h) ==
    /\ g # h
    /\ Accessing(g)
    /\ Accessing(h)
    /\ Statement(g).fields \cap Statement(h).fields # {}
    /\ Statement(g).write \/ Statement(h).write

\* C25: every read and write of a LogFile's Records, IndexedRecords and
\* ProcessingState, by the tailer's pass, by assert and by reset, is made
\* while the goroutine holds the LogFile's mutex, so that no two
\* goroutines are inside such an access at once.
C25_AccessUnderFileMutex ==
    /\ \A g \in Goroutines : Accessing(g) => holder["file"] = g
    /\ \A g, h \in Goroutines : ~Race(g, h)

====
